---------------------------- MODULE Spec2Model ----------------------------
(***************************************************************************)
(* GROMACS topology reader (grotopplugin.c): the line scanner, the         *)
(* conditional-compilation preprocessor, the section dispatcher with its   *)
(* record parsers, and the instantiator behind open / read_structure /     *)
(* read_bonds / read_angles / close.                                       *)
(*                                                                         *)
(* A physical line is modelled by its kind and its whitespace-separated    *)
(* tokens.  Numbers (ints and floats alike) are integer tokens, words are  *)
(* sequences of one-character strings, so that truncation (%15s, "%.4s")   *)
(* and toupper are computed and not assumed.  The files are not stored:    *)
(* every fgets draws the next line from a bounded set of lines, which is   *)
(* the same as parsing every file of that many lines.                      *)
(***************************************************************************)
EXTENDS Integers, Sequences, FiniteSets, TLC

(***************************************************************************)
(* Program constants (#define, grotopplugin.c:44-49).                      *)
(***************************************************************************)
MAX_INCLUDES == 100
MAX_MOLTYPES == 500
MAX_MOLECULES == 1000
MAX_ATOMTYPES == 1000
MAX_DEFINES == 100
MAX_IFDEF_DEPTH == 20
\* char include_path[512] (grotopplugin.c:1022).
INCLUDE_PATH_SIZE == 512

(***************************************************************************)
(* Bounds of the model.                                                    *)
(***************************************************************************)
MaxLines == 5

Last(s) == s[Len(s)]
Front(s) == SubSeq(s, 1, Len(s) - 1)
Min(a, b) == IF a < b THEN a ELSE b

(***************************************************************************)
(* Tokens.  Num(v) is a numeric token, Word(s) any other token.            *)
(***************************************************************************)
Num(v) == [n |-> TRUE, v |-> v, s |-> <<>>]
Word(s) == [n |-> FALSE, v |-> 0, s |-> s]

DigitChars == <<"0", "1", "2", "3", "4", "5", "6", "7", "8", "9">>

RECURSIVE Digits(_)
Digits(v) ==
  IF v < 10 THEN <<DigitChars[v + 1]>>
  ELSE Digits(v \div 10) \o <<DigitChars[(v % 10) + 1]>>

\* The characters of a token, as %s reads them.
Text(t) ==
  IF t.n THEN (IF t.v < 0 THEN <<"-">> \o Digits(0 - t.v) ELSE Digits(t.v))
  ELSE t.s

(***************************************************************************)
(* sscanf.  A format is a sequence of conversions: [c |-> "d"], "f",       *)
(* "s" with a width w, or "skip" (%*s).  Scan returns the values assigned, *)
(* in order, up to the first conversion that fails; its length is sscanf's *)
(* return value.  %d and %f convert the longest prefix of the token that   *)
(* is a number (a sign, then digits; the tokens here have no fraction or   *)
(* exponent) and fail when there is none; %Ns takes at most N characters.  *)
(* Both leave the rest of the token for the next conversion.               *)
(***************************************************************************)
IsDigit(c) == \E i \in 1..Len(DigitChars) : DigitChars[i] = c

DigitValue(c) == (CHOOSE i \in 1..Len(DigitChars) : DigitChars[i] = c) - 1

\* The number of digits that s begins with from position i on.
RECURSIVE DigitRun(_, _)
DigitRun(s, i) ==
  IF i <= Len(s) /\ IsDigit(s[i]) THEN 1 + DigitRun(s, i + 1) ELSE 0

\* The length of the prefix of s that strtol converts: 0 when s does not
\* begin with a number.
NumberPrefix(s) ==
  LET signed == s # <<>> /\ s[1] \in {"-", "+"}
      digits == DigitRun(s, IF signed THEN 2 ELSE 1)
  IN IF digits = 0 THEN 0 ELSE digits + (IF signed THEN 1 ELSE 0)

\* The value of a sequence of digits with an optional sign.
RECURSIVE NumberValue(_)
NumberValue(s) ==
  IF s = <<>> THEN 0
  ELSE IF s[1] = "-" THEN 0 - NumberValue(Tail(s))
  ELSE IF s[1] = "+" THEN NumberValue(Tail(s))
  ELSE 10 * NumberValue(SubSeq(s, 1, Len(s) - 1)) + DigitValue(s[Len(s)])

CD == [c |-> "d", w |-> 0]
CF == [c |-> "f", w |-> 0]
CS(w) == [c |-> "s", w |-> w]
CSkip == [c |-> "skip", w |-> 0]

RECURSIVE Scan(_, _)
Scan(toks, fmt) ==
  IF fmt = <<>> \/ toks = <<>> THEN <<>>
  ELSE LET c == Head(fmt)
           t == Head(toks)
       IN CASE c.c = "skip" -> Scan(Tail(toks), Tail(fmt))
            [] c.c = "s" ->
                 IF Len(Text(t)) > c.w
                 THEN <<Word(SubSeq(Text(t), 1, c.w))>> \o
                      Scan(<<Word(SubSeq(Text(t), c.w + 1, Len(Text(t))))>> \o Tail(toks),
                           Tail(fmt))
                 ELSE <<Word(Text(t))>> \o Scan(Tail(toks), Tail(fmt))
            [] OTHER ->
                 LET p == NumberPrefix(t.s) IN
                 IF t.n THEN <<t>> \o Scan(Tail(toks), Tail(fmt))
                 ELSE IF p = 0 THEN <<>>
                 ELSE IF p = Len(t.s)
                 THEN <<Num(NumberValue(t.s))>> \o Scan(Tail(toks), Tail(fmt))
                 ELSE <<Num(NumberValue(SubSeq(t.s, 1, p)))>> \o
                      Scan(<<Word(SubSeq(t.s, p + 1, Len(t.s)))>> \o Tail(toks),
                           Tail(fmt))

(***************************************************************************)
(* Lines.  k is the kind the scanner's tests give the raw line:            *)
(*   "define" "ifdef" "ifndef" "else" "endif" "include"  the directives    *)
(*   "hash"     any other line whose first character is #                  *)
(*   "header"   [ arg ]                                                    *)
(*   "blank"    empty after strip_comments                                 *)
(*   "rec"      anything else: the tokens toks                             *)
(* arg is the symbol, the file or the section name.                        *)
(***************************************************************************)
Line(k, arg, toks) == [k |-> k, arg |-> arg, toks |-> toks]
Define(sym) == Line("define", sym, <<>>)
Ifdef(sym) == Line("ifdef", sym, <<>>)
Ifndef(sym) == Line("ifndef", sym, <<>>)
Else == Line("else", "", <<>>)
Endif == Line("endif", "", <<>>)
Include(file) == Line("include", file, <<>>)
Hash == Line("hash", "", <<>>)
Header(name) == Line("header", name, <<>>)
Blank == Line("blank", "", <<>>)
Rec(toks) == Line("rec", "", toks)

\* is_preprocessor_directive: the first non-blank character is #.
is_preprocessor_directive(l) ==
  l.k \in {"define", "ifdef", "ifndef", "else", "endif", "include", "hash"}

\* is_section_header, after strip_comments.
is_section_header(l) == l.k = "header"

\* The first token of a directive line, as a record parser that does not test
\* for directives reads it.
DirectiveWord(l) ==
  CASE l.k = "define" -> <<"#", "d", "e", "f", "i", "n", "e">>
    [] l.k = "ifdef" -> <<"#", "i", "f", "d", "e", "f">>
    [] l.k = "ifndef" -> <<"#", "i", "f", "n", "d", "e", "f">>
    [] l.k = "else" -> <<"#", "e", "l", "s", "e">>
    [] l.k = "endif" -> <<"#", "e", "n", "d", "i", "f">>
    [] l.k = "include" -> <<"#", "i", "n", "c", "l", "u", "d", "e">>
    [] OTHER -> <<"#">>

\* The tokens of a line that is neither blank nor a section header.
Tokens(l) == IF l.k = "rec" THEN l.toks ELSE <<Word(DirectiveWord(l))>>

(***************************************************************************)
(* The parse.  A machine m is the grotop_data under construction (data),   *)
(* the stack of parse_topology_file activations (frames, the primary file  *)
(* first), the state of the outermost call (ret: "run"; "unwind" while a   *)
(* return of 0 travels up the activations; "ok" = it returned 1; "fail" =  *)
(* it returned 0), the diagnostic of the failure (err) and the number of   *)
(* lines drawn so far (nread).                                             *)
(*                                                                         *)
(* A frame holds the locals of parse_topology_file (current_section,       *)
(* current_mt, ifdef_stack; ifdef_depth is Len(ifdef_stack)), the loop     *)
(* that issues the next fgets on its FILE ("main" or the section parser    *)
(* that process_section has entered), and the position of the FILE: the    *)
(* line an fseek(pos_before) has put back (unread) and whether fgets has   *)
(* already returned NULL (eof).  current_mt is an index into data.moltypes *)
(* (0 is NULL): a molecule type never leaves the table during a parse.     *)
(*                                                                         *)
(* The input: fs maps each file fopen can open to the lines it starts      *)
(* with, and a frame's rest is what is left of them; after them fgets      *)
(* draws further lines from pool while fewer than MaxLines were drawn.     *)
(***************************************************************************)
NewData ==
  [moltypes |-> <<>>, atomtypes |-> <<>>, molnames |-> <<>>, molcounts |-> <<>>,
   defines |-> <<>>,
   total_atoms |-> 0, total_bonds |-> 0, total_angles |-> 0,
   total_dihedrals |-> 0, total_impropers |-> 0]

\* The file names of the model: the number of characters of the name, and of
\* its directory part (up to and including the last '/').
NameLength(name) ==
  CASE name = "topol.top" -> 9
    [] name = "mol.itp" -> 7
    [] name = "none.itp" -> 8
    [] name = "missing.top" -> 11
    [] name = "sub/loop.top" -> 12
    [] name = "../sub/loop.top" -> 15
DirLength(name) ==
  CASE name = "sub/loop.top" -> 4
    [] name = "../sub/loop.top" -> 7
    [] OTHER -> 0

\* A path as parse_include handles it: its length and the length of its
\* directory part.
PathOf(name) == [len |-> NameLength(name), dir |-> DirLength(name)]

\* parse_include, lines 298-308: include_path is the directory part of
\* base_path followed by the file name of the #include line.
parse_include(base_path, filename) ==
  [len |-> base_path.dir + NameLength(filename),
   dir |-> base_path.dir + DirLength(filename)]

NewFrame(rest) ==
  [current_section |-> "", current_mt |-> 0, ifdef_stack |-> <<>>,
   loop |-> "main", unread |-> <<>>, eof |-> FALSE, rest |-> rest,
   filepath |-> PathOf("topol.top")]

\* The heap blocks of one open call: whether the grotop_data block is
\* allocated, and the number of allocated moltype_t blocks (each with its four
\* record arrays, which create_moltype allocates and free_moltype frees
\* together with it); and the number of FILE streams that fopen has returned
\* and fclose has not closed.
NewHeap == [data |-> TRUE, moltypes |-> 0, files |-> 0]

\* calloc(1, sizeof(grotop_data)) and the input of the run: fs and pool.
\* full_warnings counts the warnings of add_define about a full define-set.
NewMachine(fs, pool) ==
  [data |-> NewData, frames |-> <<>>, ret |-> "run", err |-> "", nread |-> 0,
   fs |-> fs, pool |-> pool, heap |-> NewHeap, full_warnings |-> 0]

Top(m) == Last(m.frames)
SetTop(m, f) == [m EXCEPT !.frames = Front(m.frames) \o <<f>>]

\* A return of 0 to the activation on top of the stack (to open_grotop_read
\* when there is none), after the diagnostic msg.
Fatal(m, msg) ==
  [m EXCEPT !.ret = IF m.frames = <<>> THEN "fail" ELSE "unwind", !.err = msg]

\* fclose(fp) in the activation on top of the stack.
fclose(m) == [m EXCEPT !.heap.files = @ - 1]

\* A variant for comparison: "return 0;" without the fclose.
fail_return_leaving_open(m) ==
  [m EXCEPT !.frames = Front(@), !.ret = IF Len(m.frames) = 1 THEN "fail" ELSE "unwind"]

\* "fclose(fp); return 0;" in the activation on top of the stack.
fail_return(m) ==
  [fclose(m) EXCEPT !.frames = Front(@),
                    !.ret = IF Len(m.frames) = 1 THEN "fail" ELSE "unwind"]

\* fseek(fp, pos_before, SEEK_SET); return 1;  the line is read again by the
\* caller's fgets.
Unread(m, l) == SetTop(m, [Top(m) EXCEPT !.loop = "main", !.unread = <<l>>])

\* free_moltype(mt): one moltype_t block and its arrays are released.
free_moltype(m) == [m EXCEPT !.heap.moltypes = @ - 1]

is_defined(data, symbol) ==
  \E i \in 1..Len(data.defines) : data.defines[i] = symbol

add_define(data, symbol) ==
  IF Len(data.defines) >= MAX_DEFINES THEN data
  ELSE IF is_defined(data, symbol) THEN data
  ELSE [data EXCEPT !.defines = Append(@, symbol)]

\* The warning of add_define, lines 223-226: printed whenever the set is
\* full, before the symbol is looked up.
add_define_warns(data, symbol) == Len(data.defines) >= MAX_DEFINES

\* create_moltype: calloc'ed, so every field starts empty.
create_moltype ==
  [name |-> <<>>, nrexcl |-> 0, atoms |-> <<>>, bonds |-> <<>>,
   angles |-> <<>>, dihedrals |-> <<>>]

MtSections == {"atoms", "bonds", "constraints", "angles", "dihedrals"}
SkipSections ==
  {"system", "defaults", "pairs", "exclusions", "settles", "position_restraints"}

\* process_section up to the first fgets of the parser it selects; what the
\* parser then does with each line is in the parse_..._section operators,
\* and the rest of the moleculetype branch in parse_moleculetype_header.
process_section(m, section) ==
  LET f == Top(m) IN
  CASE section = "atomtypes" -> SetTop(m, [f EXCEPT !.loop = "atomtypes"])
    [] section = "moleculetype" ->
         [SetTop(m, [f EXCEPT !.loop = "moleculetype"]) EXCEPT !.heap.moltypes = @ + 1]
    [] section \in MtSections /\ f.current_mt # 0 ->
         SetTop(m, [f EXCEPT !.loop = section])
    [] section = "molecules" -> SetTop(m, [f EXCEPT !.loop = "molecules"])
    [] section \in SkipSections -> SetTop(m, [f EXCEPT !.loop = "skip"])
    [] OTHER -> m

\* One iteration of the loop of parse_atomtypes_section on line l.
\* A variant for comparison: atom types are taken only while no molecule type
\* has been defined.
parse_atomtypes_section_before_moltypes(m, l) ==
  IF is_preprocessor_directive(l) THEN Unread(m, l)
  ELSE IF l.k = "blank" THEN m
  ELSE IF is_section_header(l) THEN Unread(m, l)
  ELSE LET martini == Scan(Tokens(l), <<CS(15), CF>>)
           gromacs == Scan(Tokens(l), <<CS(15), CSkip, CSkip, CF>>)
           v == IF Len(martini) = 2 THEN martini ELSE gromacs
       IN IF Len(v) = 2 /\ Len(m.data.atomtypes) < MAX_ATOMTYPES
             /\ Len(m.data.moltypes) = 0
          THEN [m EXCEPT !.data.atomtypes =
                           Append(@, [name |-> v[1].s, mass |-> v[2].v])]
          ELSE m

parse_atomtypes_section(m, l) ==
  IF is_preprocessor_directive(l) THEN Unread(m, l)
  ELSE IF l.k = "blank" THEN m
  ELSE IF is_section_header(l) THEN Unread(m, l)
  ELSE LET martini == Scan(Tokens(l), <<CS(15), CF>>)
           gromacs == Scan(Tokens(l), <<CS(15), CSkip, CSkip, CF>>)
           v == IF Len(martini) = 2 THEN martini ELSE gromacs
       IN IF Len(v) = 2 /\ Len(m.data.atomtypes) < MAX_ATOMTYPES
          THEN [m EXCEPT !.data.atomtypes =
                           Append(@, [name |-> v[1].s, mass |-> v[2].v])]
          ELSE m

\* parse_moleculetype_header on line l, and then the rest of the
\* moleculetype branch of process_section.  No test for directives here.
parse_moleculetype_header(m, l) ==
  IF l.k = "blank" THEN m
  ELSE IF is_section_header(l) THEN Fatal(free_moltype(m), "no molecule type data")
  ELSE LET v == Scan(Tokens(l), <<CS(31), CD>>)
           mt == [create_moltype EXCEPT
                    !.name = v[1].s,
                    !.nrexcl = IF Len(v) = 2 THEN v[2].v ELSE 3]
       IN IF Len(m.data.moltypes) < MAX_MOLTYPES
          THEN LET m1 == [m EXCEPT !.data.moltypes = Append(@, mt)]
               IN SetTop(m1, [Top(m1) EXCEPT
                                !.current_mt = Len(m1.data.moltypes),
                                !.loop = "main"])
          ELSE Fatal(free_moltype(m), "Maximum number of molecule types exceeded")

parse_atoms_section(m, l) ==
  IF is_preprocessor_directive(l) THEN Unread(m, l)
  ELSE IF l.k = "blank" THEN m
  ELSE IF is_section_header(l) THEN Unread(m, l)
  ELSE LET v == Scan(Tokens(l), <<CD, CS(15), CD, CS(7), CS(15), CD, CF, CF>>)
           mt == Top(m).current_mt
       IN IF Len(v) >= 7
          THEN [m EXCEPT !.data.moltypes[mt].atoms =
                  Append(@, [id |-> v[1].v, atom_type |-> v[2].s,
                             resnr |-> v[3].v, residue |-> v[4].s,
                             atom_name |-> v[5].s, cgnr |-> v[6].v,
                             charge |-> v[7].v,
                             mass |-> IF Len(v) = 8 THEN v[8].v ELSE 0])]
          ELSE m

parse_bonds_section(m, l) ==
  IF is_preprocessor_directive(l) THEN Unread(m, l)
  ELSE IF l.k = "blank" THEN m
  ELSE IF is_section_header(l) THEN Unread(m, l)
  ELSE LET v == Scan(Tokens(l), <<CD, CD>>)
           mt == Top(m).current_mt
       IN IF Len(v) = 2
          THEN [m EXCEPT !.data.moltypes[mt].bonds =
                           Append(@, [ai |-> v[1].v, aj |-> v[2].v])]
          ELSE m

\* A variant for comparison: constraints are read and kept apart from the bonds.
parse_constraints_section_apart(m, l) ==
  IF is_preprocessor_directive(l) \/ is_section_header(l) THEN Unread(m, l) ELSE m

\* Constraints are appended to the bond list.
parse_constraints_section(m, l) ==
  IF is_preprocessor_directive(l) THEN Unread(m, l)
  ELSE IF l.k = "blank" THEN m
  ELSE IF is_section_header(l) THEN Unread(m, l)
  ELSE LET v == Scan(Tokens(l), <<CD, CD>>)
           mt == Top(m).current_mt
       IN IF Len(v) = 2
          THEN [m EXCEPT !.data.moltypes[mt].bonds =
                           Append(@, [ai |-> v[1].v, aj |-> v[2].v])]
          ELSE m

parse_angles_section(m, l) ==
  IF is_preprocessor_directive(l) THEN Unread(m, l)
  ELSE IF l.k = "blank" THEN m
  ELSE IF is_section_header(l) THEN Unread(m, l)
  ELSE LET v == Scan(Tokens(l), <<CD, CD, CD>>)
           mt == Top(m).current_mt
       IN IF Len(v) = 3
          THEN [m EXCEPT !.data.moltypes[mt].angles =
                           Append(@, [ai |-> v[1].v, aj |-> v[2].v, ak |-> v[3].v])]
          ELSE m

parse_dihedrals_section(m, l) ==
  IF is_preprocessor_directive(l) THEN Unread(m, l)
  ELSE IF l.k = "blank" THEN m
  ELSE IF is_section_header(l) THEN Unread(m, l)
  ELSE LET v == Scan(Tokens(l), <<CD, CD, CD, CD, CD>>)
           mt == Top(m).current_mt
       IN IF Len(v) >= 4
          THEN [m EXCEPT !.data.moltypes[mt].dihedrals =
                  Append(@, [ai |-> v[1].v, aj |-> v[2].v, ak |-> v[3].v,
                             al |-> v[4].v,
                             funct |-> IF Len(v) = 5 THEN v[5].v ELSE 0])]
          ELSE m

parse_molecules_section(m, l) ==
  IF is_preprocessor_directive(l) THEN Unread(m, l)
  ELSE IF l.k = "blank" THEN m
  ELSE IF is_section_header(l) THEN Unread(m, l)
  ELSE LET v == Scan(Tokens(l), <<CS(31), CD>>)
       IN IF Len(v) = 2 /\ Len(m.data.molnames) < MAX_MOLECULES
          THEN [m EXCEPT !.data.molnames = Append(@, v[1].s),
                         !.data.molcounts = Append(@, v[2].v)]
          ELSE m

\* A variant for comparison: the loop takes the section header that ends it.
skip_section_taking_header(m, l) ==
  IF is_preprocessor_directive(l) THEN Unread(m, l)
  ELSE m

\* The loop of process_section for the sections that are read and dropped.
skip_section(m, l) ==
  IF is_preprocessor_directive(l) THEN Unread(m, l)
  ELSE IF l.k = "blank" THEN m
  ELSE IF is_section_header(l) THEN Unread(m, l)
  ELSE m

\* The line l read by the section parser that the top frame is in.
section_line(m, l) ==
  LET s == Top(m).loop IN
  CASE s = "atomtypes" -> parse_atomtypes_section(m, l)
    [] s = "moleculetype" -> parse_moleculetype_header(m, l)
    [] s = "atoms" -> parse_atoms_section(m, l)
    [] s = "bonds" -> parse_bonds_section(m, l)
    [] s = "constraints" -> parse_constraints_section(m, l)
    [] s = "angles" -> parse_angles_section(m, l)
    [] s = "dihedrals" -> parse_dihedrals_section(m, l)
    [] s = "molecules" -> parse_molecules_section(m, l)
    [] OTHER -> skip_section(m, l)

\* fgets returns NULL in a section parser: "break; return 1", except in
\* parse_moleculetype_header, which returns 0.
section_eof(m) ==
  IF Top(m).loop = "moleculetype" THEN Fatal(free_moltype(m), "no molecule type data")
  ELSE SetTop(m, [Top(m) EXCEPT !.loop = "main", !.eof = TRUE])

(***************************************************************************)
(* parse_topology_file: its entry, one iteration of its loop, its exit.    *)
(***************************************************************************)
\* The filepath argument of parse_topology_file for the file named filepath:
\* the name that open_grotop_read passes, or the include_path that
\* parse_include has built in the including activation (lines 1022-1025).
PathArgument(m, filepath) ==
  IF m.frames = <<>> THEN PathOf(filepath)
  ELSE parse_include(Top(m).filepath, filepath)

\* Variants of the entry of parse_topology_file, for comparison: one in which
\* an included file starts from an empty define-set, one in which it starts
\* with the conditional stack of the file that includes it.
parse_topology_file_own_defines(m, filepath) ==
  IF Len(m.frames) > MAX_INCLUDES THEN Fatal(m, "Too many nested includes")
  ELSE IF filepath \notin DOMAIN m.fs THEN Fatal(m, "Cannot open file")
  ELSE [m EXCEPT !.frames = Append(@, [NewFrame(m.fs[filepath]) EXCEPT
                                        !.filepath = PathArgument(m, filepath)]),
                 !.heap.files = @ + 1,
                 !.data.defines = <<>>]

parse_topology_file_inherited_stack(m, filepath) ==
  IF Len(m.frames) > MAX_INCLUDES THEN Fatal(m, "Too many nested includes")
  ELSE IF filepath \notin DOMAIN m.fs THEN Fatal(m, "Cannot open file")
  ELSE [m EXCEPT !.frames =
          Append(@, [NewFrame(m.fs[filepath]) EXCEPT
                       !.filepath = PathArgument(m, filepath),
                       !.ifdef_stack = IF m.frames = <<>> THEN <<>>
                                       ELSE Top(m).ifdef_stack]),
                 !.heap.files = @ + 1]

\* Lines 895-915.  depth is the number of activations already on the stack.
parse_topology_file(m, filepath) ==
  IF Len(m.frames) > MAX_INCLUDES THEN Fatal(m, "Too many nested includes")
  ELSE IF filepath \notin DOMAIN m.fs THEN Fatal(m, "Cannot open file")
  ELSE [m EXCEPT !.frames = Append(@, [NewFrame(m.fs[filepath]) EXCEPT
                                        !.filepath = PathArgument(m, filepath)]),
                 !.heap.files = @ + 1]

\* "If we're in a section, re-enter it after processing the directive".
Reenter(m) ==
  IF Top(m).current_section # ""
  THEN process_section(m, Top(m).current_section)
  ELSE m

should_process(f) == \A i \in 1..Len(f.ifdef_stack) : f.ifdef_stack[i]

\* A variant for comparison: the test lets one more entry onto the stack.
stack_full_one_late(f) == Len(f.ifdef_stack) > MAX_IFDEF_DEPTH

\* if (ifdef_depth >= MAX_IFDEF_DEPTH), line 934.
stack_full(f) == Len(f.ifdef_stack) >= MAX_IFDEF_DEPTH

\* Lines 917-1053: the body of the while loop on the line l that fgets gave.
parse_topology_line(m, l) ==
  LET f == Top(m) IN
  CASE l.k = "define" ->
         Reenter([m EXCEPT !.data = add_define(@, l.arg),
                           !.full_warnings =
                              IF add_define_warns(m.data, l.arg) THEN @ + 1 ELSE @])
    [] l.k \in {"ifdef", "ifndef"} ->
         IF stack_full(f)
         THEN Fatal(m, "Too many nested #ifdef directives")
         ELSE LET condition == IF l.k = "ifndef"
                               THEN ~is_defined(m.data, l.arg)
                               ELSE is_defined(m.data, l.arg)
              IN Reenter(SetTop(m, [f EXCEPT !.ifdef_stack = Append(@, condition)]))
    [] l.k = "else" ->
         IF Len(f.ifdef_stack) = 0 THEN Fatal(m, "#else without matching #ifdef")
         ELSE Reenter(SetTop(m, [f EXCEPT !.ifdef_stack[Len(f.ifdef_stack)] = ~@]))
    [] l.k = "endif" ->
         IF Len(f.ifdef_stack) = 0 THEN Fatal(m, "#endif without matching #ifdef")
         ELSE Reenter(SetTop(m, [f EXCEPT !.ifdef_stack = Front(@)]))
    [] OTHER ->
         IF ~should_process(f) THEN m
         ELSE IF l.k = "include" THEN parse_topology_file(m, l.arg)
         ELSE IF is_section_header(l)
         THEN process_section(SetTop(m, [f EXCEPT !.current_section = l.arg]), l.arg)
         ELSE m

\* A variant for comparison: an #ifdef or #ifndef that is still open at the
\* end of the file is an error.
parse_topology_eof_balanced(m) ==
  IF Top(m).ifdef_stack # <<>> THEN Fatal(m, "unmatched #ifdef")
  ELSE IF Len(m.frames) = 1 THEN [fclose(m) EXCEPT !.frames = <<>>, !.ret = "ok"]
  ELSE [fclose(m) EXCEPT !.frames = Front(@)]

\* Lines 1055-1062: fgets returned NULL to the loop; fclose; return 1.
parse_topology_eof(m) ==
  IF Len(m.frames) = 1 THEN [fclose(m) EXCEPT !.frames = <<>>, !.ret = "ok"]
  ELSE [fclose(m) EXCEPT !.frames = Front(@)]

(***************************************************************************)
(* The instantiator.                                                       *)
(***************************************************************************)
\* find_moltype: the index of the first molecule type of that name, 0 = NULL.
find_moltype(data, name) ==
  LET hits == {i \in 1..Len(data.moltypes) : data.moltypes[i].name = name}
  IN IF hits = {} THEN 0 ELSE CHOOSE i \in hits : \A j \in hits : i <= j

\* A variant for comparison: the table is not consulted.
find_atomtype_mass_default(data, type) == 0

find_atomtype_mass(data, type) ==
  LET hits == {i \in 1..Len(data.atomtypes) : data.atomtypes[i].name = type}
  IN IF hits = {} THEN 0
     ELSE data.atomtypes[CHOOSE i \in hits : \A j \in hits : i <= j].mass

\* A variant for comparison: an entry without molecule type counts no atoms.
RECURSIVE total_atoms_from_known(_, _, _)
total_atoms_from_known(data, i, total) ==
  IF i > Len(data.molnames) THEN total
  ELSE LET mt == find_moltype(data, data.molnames[i])
       IN IF mt = 0 THEN total_atoms_from_known(data, i + 1, total)
          ELSE total_atoms_from_known(data, i + 1,
                 total + Len(data.moltypes[mt].atoms) * data.molcounts[i])

RECURSIVE total_atoms_from(_, _, _)
total_atoms_from(data, i, total) ==
  IF i > Len(data.molnames) THEN total
  ELSE LET mt == find_moltype(data, data.molnames[i])
       IN IF mt = 0 THEN -1
          ELSE total_atoms_from(data, i + 1,
                 total + Len(data.moltypes[mt].atoms) * data.molcounts[i])

calculate_total_atoms(data) == total_atoms_from(data, 1, 0)

\* The loop shared by calculate_total_bonds, _angles and _dihedrals: field is
\* the record array counted.
RECURSIVE total_records_from(_, _, _, _)
total_records_from(data, field, i, total) ==
  IF i > Len(data.molnames) THEN total
  ELSE LET mt == find_moltype(data, data.molnames[i])
       IN total_records_from(data, field, i + 1,
            IF mt = 0 THEN total
            ELSE total + Len(data.moltypes[mt][field]) * data.molcounts[i])

calculate_total_bonds(data) == total_records_from(data, "bonds", 1, 0)
calculate_total_angles(data) == total_records_from(data, "angles", 1, 0)
calculate_total_dihedrals(data) == total_records_from(data, "dihedrals", 1, 0)

is_improper(d) == d.funct = 2 \/ d.funct = 4

RECURSIVE total_impropers_from(_, _, _)
total_impropers_from(data, i, total) ==
  IF i > Len(data.molnames) THEN total
  ELSE LET mt == find_moltype(data, data.molnames[i])
       IN total_impropers_from(data, i + 1,
            IF mt = 0 THEN total
            ELSE total + data.molcounts[i] *
                   Cardinality({j \in 1..Len(data.moltypes[mt].dihedrals) :
                                  is_improper(data.moltypes[mt].dihedrals[j])}))

calculate_total_impropers(data) == total_impropers_from(data, 1, 0)

\* toupper on the characters the inputs use.
toupper(c) ==
  CASE c = "a" -> "A" [] c = "b" -> "B" [] c = "c" -> "C" [] c = "d" -> "D"
    [] c = "e" -> "E" [] c = "f" -> "F" [] c = "g" -> "G" [] c = "h" -> "H"
    [] c = "i" -> "I" [] c = "j" -> "J" [] c = "k" -> "K" [] c = "l" -> "L"
    [] c = "m" -> "M" [] c = "n" -> "N" [] c = "o" -> "O" [] c = "p" -> "P"
    [] c = "q" -> "Q" [] c = "r" -> "R" [] c = "s" -> "S" [] c = "t" -> "T"
    [] c = "u" -> "U" [] c = "v" -> "V" [] c = "w" -> "W" [] c = "x" -> "X"
    [] c = "y" -> "Y" [] c = "z" -> "Z" [] OTHER -> c

\* A variant for comparison: the name is truncated but its case is kept.
make_segid_as_written(name) == [j \in 1..Min(Len(name), 4) |-> name[j]]

\* snprintf(segid, sizeof(segid), "%.4s", mt->name), then toupper on each.
make_segid(name) ==
  [j \in 1..Min(Len(name), 4) |-> toupper(name[j])]

\* Lines 1207-1213.
min_resid(mt) ==
  IF Len(mt.atoms) = 0 THEN 1
  ELSE CHOOSE r \in {mt.atoms[i].resnr : i \in 1..Len(mt.atoms)} :
         \A i \in 1..Len(mt.atoms) : r <= mt.atoms[i].resnr

max_resid(mt) ==
  IF Len(mt.atoms) = 0 THEN 1
  ELSE CHOOSE r \in {mt.atoms[i].resnr : i \in 1..Len(mt.atoms)} :
         \A i \in 1..Len(mt.atoms) : r >= mt.atoms[i].resnr

\* A variant for comparison: the last residue is not counted.
num_residues_less_one(mt) == max_resid(mt) - min_resid(mt)

num_residues(mt) == max_resid(mt) - min_resid(mt) + 1

\* Lines 1221-1252: the atoms of one copy, written at global_atom_idx on.
copy_atoms(data, mt, resid_offset) ==
  [i \in 1..Len(mt.atoms) |->
     LET src == mt.atoms[i] IN
     [name |-> src.atom_name, type |-> src.atom_type, resname |-> src.residue,
      resid |-> src.resnr + resid_offset,
      segid |-> make_segid(mt.name), chain |-> <<>>,
      charge |-> src.charge,
      mass |-> IF src.mass > 0 THEN src.mass
               ELSE find_atomtype_mass(data, src.atom_type)]]

\* A variant of the loop over the copies, for comparison: residue_offset
\* advances by the number of atoms of the copy.
RECURSIVE structure_copies_by_atoms(_, _, _, _, _)
structure_copies_by_atoms(data, mt, copy, count, st) ==
  IF ~(copy < count) THEN st
  ELSE structure_copies_by_atoms(data, mt, copy + 1, count,
         [atoms |-> st.atoms \o
                      copy_atoms(data, mt, st.residue_offset - min_resid(mt) + 1),
          residue_offset |-> st.residue_offset + Len(mt.atoms)])

\* Lines 1216-1256: for (copy = 0; copy < count; copy++).  st carries the
\* atoms written so far and residue_offset.
RECURSIVE structure_copies(_, _, _, _, _)
structure_copies(data, mt, copy, count, st) ==
  IF ~(copy < count) THEN st
  ELSE structure_copies(data, mt, copy + 1, count,
         [atoms |-> st.atoms \o
                      copy_atoms(data, mt, st.residue_offset - min_resid(mt) + 1),
          residue_offset |-> st.residue_offset + num_residues(mt)])

\* Lines 1192-1257: for (mol_idx = 0; mol_idx < num_molecules; mol_idx++).
RECURSIVE structure_molecules(_, _, _)
structure_molecules(data, mol_idx, st) ==
  IF mol_idx > Len(data.molnames) THEN st
  ELSE LET mt == find_moltype(data, data.molnames[mol_idx])
       IN structure_molecules(data, mol_idx + 1,
            IF mt = 0 THEN st
            ELSE structure_copies(data, data.moltypes[mt], 0,
                                  data.molcounts[mol_idx], st))

\* The atoms read_grotop_structure writes to atoms[0], atoms[1], ... in order.
read_grotop_structure(data) ==
  structure_molecules(data, 1, [atoms |-> <<>>, residue_offset |-> 0]).atoms

\* One record of a copy as the tuple of global indices written for it.
global_tuple(r, kind, global_atom_offset) ==
  CASE kind = "bonds" -> <<global_atom_offset + r.ai, global_atom_offset + r.aj>>
    [] kind = "angles" -> <<global_atom_offset + r.ai, global_atom_offset + r.aj,
                            global_atom_offset + r.ak>>
    [] OTHER -> <<global_atom_offset + r.ai, global_atom_offset + r.aj,
                  global_atom_offset + r.ak, global_atom_offset + r.al>>

\* The records of a molecule type that the loop of that kind does not skip
\* ("continue"), in their order.
kept_records(mt, kind) ==
  CASE kind = "bonds" -> mt.bonds
    [] kind = "angles" -> mt.angles
    [] kind = "dihedrals" -> SelectSeq(mt.dihedrals, LAMBDA d : ~is_improper(d))
    [] OTHER -> SelectSeq(mt.dihedrals, is_improper)

\* The innermost loop: the tuples of one copy.
copy_records(mt, kind, global_atom_offset) ==
  [i \in 1..Len(kept_records(mt, kind)) |->
     global_tuple(kept_records(mt, kind)[i], kind, global_atom_offset)]

\* A variant of the loop over the copies, for comparison: global_atom_offset
\* advances by the number of records of the copy.
RECURSIVE instantiate_copies_by_records(_, _, _, _, _)
instantiate_copies_by_records(mt, kind, copy, count, st) ==
  IF ~(copy < count) THEN st
  ELSE instantiate_copies_by_records(mt, kind, copy + 1, count,
         [out |-> st.out \o copy_records(mt, kind, st.global_atom_offset),
          global_atom_offset |-> st.global_atom_offset
                                   + Len(kept_records(mt, kind))])

\* for (copy = 0; copy < count; copy++) { ...; global_atom_offset += natoms; }
RECURSIVE instantiate_copies(_, _, _, _, _)
instantiate_copies(mt, kind, copy, count, st) ==
  IF ~(copy < count) THEN st
  ELSE instantiate_copies(mt, kind, copy + 1, count,
         [out |-> st.out \o copy_records(mt, kind, st.global_atom_offset),
          global_atom_offset |-> st.global_atom_offset + Len(mt.atoms)])

RECURSIVE instantiate_molecules(_, _, _, _)
instantiate_molecules(data, kind, mol_idx, st) ==
  IF mol_idx > Len(data.molnames) THEN st
  ELSE LET mt == find_moltype(data, data.molnames[mol_idx])
       IN instantiate_molecules(data, kind, mol_idx + 1,
            IF mt = 0 THEN st
            ELSE instantiate_copies(data.moltypes[mt], kind, 0,
                                    data.molcounts[mol_idx], st))

\* The tuples one of the four instantiation loops writes, in order, to
\* elements 0, 1, ... of its array (lines 1288-1308, 1358-1378, 1392-1416,
\* 1431-1455).
instantiate(data, kind) ==
  instantiate_molecules(data, kind, 1, [out |-> <<>>, global_atom_offset |-> 0]).out

\* malloc(n * sizeof(int)) with the int n converted to size_t: a negative n
\* asks for more than the address space and malloc returns NULL.
malloc_ok(n) == n >= 0

\* read_grotop_bonds.  alloc is the number of elements of bond_from and
\* bond_to (0: NULL), pairs the <<from, to>> written, in order.
read_grotop_bonds(data) ==
  IF data.total_bonds = 0
  THEN [rc |-> "MOLFILE_SUCCESS", nbonds |-> 0, alloc |-> 0, pairs |-> <<>>]
  ELSE IF ~malloc_ok(data.total_bonds)
  THEN [rc |-> "MOLFILE_ERROR", nbonds |-> 0, alloc |-> 0, pairs |-> <<>>]
  ELSE [rc |-> "MOLFILE_SUCCESS", nbonds |-> data.total_bonds,
        alloc |-> data.total_bonds, pairs |-> instantiate(data, "bonds")]

\* read_grotop_angles.  For each table: the count reported, the number of
\* tuples allocated and the tuples written.
read_grotop_angles(data) ==
  LET angles == IF data.total_angles > 0 THEN instantiate(data, "angles") ELSE <<>>
      dihedrals == IF data.total_dihedrals > 0
                   THEN instantiate(data, "dihedrals") ELSE <<>>
      impropers == IF data.total_impropers > 0
                   THEN instantiate(data, "impropers") ELSE <<>>
  IN [rc |-> "MOLFILE_SUCCESS",
      numangles |-> IF data.total_angles > 0 THEN data.total_angles ELSE 0,
      angles_alloc |-> IF data.total_angles > 0 THEN data.total_angles ELSE 0,
      angles |-> angles,
      numdihedrals |-> Len(dihedrals),
      dihedrals_alloc |-> IF data.total_dihedrals > 0 THEN data.total_dihedrals ELSE 0,
      dihedrals |-> dihedrals,
      numimpropers |-> Len(impropers),
      impropers_alloc |-> IF data.total_impropers > 0 THEN data.total_impropers ELSE 0,
      impropers |-> impropers]

(***************************************************************************)
(* The arrays of read_bonds and read_angles on the heap.                   *)
(*   blocks     every block that malloc has returned to a read call, in    *)
(*              order: its pointer field ("kind"), its size in tuples, the *)
(*              tuples in it, whether it is allocated or freed, how often  *)
(*              free was called on it, whether a successful call has       *)
(*              handed it to the caller ("given"), and whether its tuples  *)
(*              were overwritten after that ("changed")                    *)
(*   ptr        data->bond_from, bond_to, angles, dihedrals, impropers:    *)
(*              an index into blocks, 0 = NULL                             *)
(*   refusals   how many further malloc calls the allocator will refuse    *)
(*   calls      the number of read_bonds and read_angles calls so far      *)
(*   followed   FALSE in the specifications that are not about the heap:   *)
(*              there the blocks are not recorded and no malloc is refused *)
(***************************************************************************)
MaxCalls == 2
MaxRefusals == 1

ArrayKinds == {"bond_from", "bond_to", "angles", "dihedrals", "impropers"}

NoArrays ==
  [followed |-> FALSE, refusals |-> 0, calls |-> 0, blocks |-> <<>>,
   ptr |-> [k \in ArrayKinds |-> 0]]

\* data->kind = malloc(n * ...): ok is the allocator's answer.
malloc(a, kind, n, ok) ==
  IF ok /\ malloc_ok(n)
  THEN [a EXCEPT !.blocks = Append(@, [kind |-> kind, size |-> n, content |-> <<>>,
                                        state |-> "allocated", frees |-> 0,
                                        given |-> FALSE, changed |-> FALSE]),
                 !.ptr[kind] = Len(a.blocks) + 1]
  ELSE [a EXCEPT !.ptr[kind] = 0,
                 !.refusals = IF malloc_ok(n) THEN @ - 1 ELSE @]

\* if (data->kind) free(data->kind);   the pointer field keeps its value.
free(a, kind) ==
  IF a.ptr[kind] = 0 THEN a
  ELSE [a EXCEPT !.blocks[a.ptr[kind]].state = "freed",
                 !.blocks[a.ptr[kind]].frees = @ + 1]

\* The instantiation loop writes tuples to elements 0, 1, ... of data->kind:
\* those within the block are its content.
write(a, kind, tuples) ==
  [a EXCEPT !.blocks[a.ptr[kind]].content =
              SubSeq(tuples, 1, Min(Len(tuples), a.blocks[a.ptr[kind]].size))]

\* The writes past the end of the block land in the memory behind it: hit is
\* 0 when that shows in no other block, j > 0 when they replace tuples of
\* block j of the read calls, and -k when they replace the first record of
\* the bonds array of molecule type k (a block of create_moltype).
overrun(a, hit) ==
  IF hit > 0 THEN [a EXCEPT !.blocks[hit].changed = a.blocks[hit].given] ELSE a

overrun_table(m, hit, tuples) ==
  IF hit < 0
  THEN [m EXCEPT !.data.moltypes[-hit].bonds[1].ai = tuples[Len(tuples)][1]]
  ELSE m

\* The blocks that an overrun of written tuples in a block of size tuples can
\* reach: none when it fits.
Overruns(a, data, written, size) ==
  IF a.followed /\ size > 0 /\ written > size
  THEN {0} \cup {j \in 1..Len(a.blocks) : a.blocks[j].state = "allocated"}
           \cup {-k : k \in {t \in 1..Len(data.moltypes) : data.moltypes[t].bonds # <<>>}}
  ELSE {0}

\* *ptr = data->kind; return MOLFILE_SUCCESS;
give(a, kind) ==
  IF a.ptr[kind] = 0 THEN a
  ELSE [a EXCEPT !.blocks[a.ptr[kind]].given = TRUE]

\* The answers the allocator can give to one malloc call.
Answers(a) == IF a.followed /\ a.refusals > 0 THEN BOOLEAN ELSE {TRUE}

\* read_grotop_bonds on the heap, with the allocator's answers ok_from and
\* ok_to (lines 1278-1316).
read_bonds_arrays(a, data, ok_from, ok_to, hit) ==
  IF data.total_bonds = 0 THEN a
  ELSE LET a1 == malloc(a, "bond_from", data.total_bonds, ok_from)
           a2 == malloc(a1, "bond_to", data.total_bonds, ok_to)
       IN IF a2.ptr["bond_from"] = 0 \/ a2.ptr["bond_to"] = 0
          THEN free(free(a2, "bond_from"), "bond_to")
          ELSE LET pairs == instantiate(data, "bonds")
                   a3 == write(a2, "bond_from", [i \in 1..Len(pairs) |-> pairs[i][1]])
                   a4 == write(a3, "bond_to", [i \in 1..Len(pairs) |-> pairs[i][2]])
               IN give(give(overrun(a4, hit), "bond_from"), "bond_to")

\* What read_grotop_bonds returns when the allocator refuses an array.
read_bonds_result(data, ok_from, ok_to) ==
  IF data.total_bonds # 0 /\ ~(ok_from /\ ok_to)
  THEN [rc |-> "MOLFILE_ERROR", nbonds |-> 0, alloc |-> 0, pairs |-> <<>>]
  ELSE read_grotop_bonds(data)

\* read_grotop_angles on the heap (lines 1353-1459): each array is allocated
\* and written only if its total is > 0; a refused dihedrals array frees the
\* angles, a refused impropers array frees the angles and the dihedrals.
read_angles_arrays(a, data, ok, hit) ==
  LET a1 == IF data.total_angles > 0
            THEN malloc(a, "angles", data.total_angles, ok[1]) ELSE a
      fail1 == data.total_angles > 0 /\ a1.ptr["angles"] = 0
      a2 == IF data.total_angles > 0 /\ ~fail1
            THEN overrun(write(a1, "angles", instantiate(data, "angles")), hit[1])
            ELSE a1
      a3 == IF data.total_dihedrals > 0
            THEN malloc(a2, "dihedrals", data.total_dihedrals, ok[2]) ELSE a2
      fail2 == data.total_dihedrals > 0 /\ a3.ptr["dihedrals"] = 0
      a4 == IF data.total_dihedrals > 0 /\ ~fail2
            THEN overrun(write(a3, "dihedrals", instantiate(data, "dihedrals")), hit[2])
            ELSE a3
      a5 == IF data.total_impropers > 0
            THEN malloc(a4, "impropers", data.total_impropers, ok[3]) ELSE a4
      fail3 == data.total_impropers > 0 /\ a5.ptr["impropers"] = 0
      a6 == IF data.total_impropers > 0 /\ ~fail3
            THEN overrun(write(a5, "impropers", instantiate(data, "impropers")), hit[3])
            ELSE a5
  IN IF fail1 THEN a1
     ELSE IF fail2 THEN free(a3, "angles")
     ELSE IF fail3 THEN free(free(a5, "angles"), "dihedrals")
     ELSE LET g1 == IF data.total_angles > 0 THEN give(a6, "angles") ELSE a6
              g2 == IF data.total_dihedrals > 0 THEN give(g1, "dihedrals") ELSE g1
          IN IF data.total_impropers > 0 THEN give(g2, "impropers") ELSE g2

\* What read_grotop_angles returns: the out-parameters set before the
\* refused malloc keep their values, the others are 0 and NULL.
read_angles_result(data, ok) ==
  LET r == read_grotop_angles(data)
      none == [rc |-> "MOLFILE_ERROR", numangles |-> 0, angles_alloc |-> 0,
               angles |-> <<>>, numdihedrals |-> 0, dihedrals_alloc |-> 0,
               dihedrals |-> <<>>, numimpropers |-> 0, impropers_alloc |-> 0,
               impropers |-> <<>>]
  IN IF data.total_angles > 0 /\ ~ok[1] THEN none
     ELSE IF data.total_dihedrals > 0 /\ ~ok[2]
     THEN [none EXCEPT !.numangles = r.numangles, !.angles_alloc = r.angles_alloc,
                       !.angles = r.angles]
     ELSE IF data.total_impropers > 0 /\ ~ok[3]
     THEN [r EXCEPT !.rc = "MOLFILE_ERROR", !.numimpropers = 0,
                    !.impropers_alloc = 0, !.impropers = <<>>]
     ELSE r

\* The handle after read_grotop_angles: its tables are touched only by an
\* overrun of a loop that was reached.
read_angles_tables(m, ok, hit) ==
  LET data == m.data
      m1 == IF data.total_angles > 0 /\ ok[1]
            THEN overrun_table(m, hit[1], instantiate(data, "angles")) ELSE m
      m2 == IF data.total_dihedrals > 0 /\ ok[1] /\ ok[2]
            THEN overrun_table(m1, hit[2], instantiate(data, "dihedrals")) ELSE m1
  IN IF data.total_impropers > 0 /\ ok[1] /\ ok[2] /\ ok[3]
     THEN overrun_table(m2, hit[3], instantiate(data, "impropers")) ELSE m2

\* close_grotop_read on the arrays (lines 1474-1480).
close_arrays(a) ==
  free(free(free(free(free(a, "bond_from"), "bond_to"), "angles"), "dihedrals"),
       "impropers")

\* open_grotop_read after parse_topology_file has returned 1: the totals.
calculate_totals(data) ==
  [data EXCEPT !.total_atoms = calculate_total_atoms(data),
               !.total_bonds = calculate_total_bonds(data),
               !.total_angles = calculate_total_angles(data),
               !.total_dihedrals = calculate_total_dihedrals(data),
               !.total_impropers = calculate_total_impropers(data)]

\* free(data) in open_grotop_read and close_grotop_read.
free_data(m) == [m EXCEPT !.heap.data = FALSE]

\* close_grotop_read: free_moltype for each of the num_moltypes molecule
\* types of the table, then free(data).
close_grotop_read(m) ==
  free_data([m EXCEPT !.heap.moltypes = @ - Len(m.data.moltypes)])

(***************************************************************************)
(* The state.                                                              *)
(*   pc         where the consumer of the plugin is: "start", "parsing"    *)
(*              (inside open), "open" (open returned the handle), "null"   *)
(*              (open returned NULL), "closed"                             *)
(*   parse      the machine of the open call; parse.data is the handle     *)
(*   last       the last thing fgets returned, and to which loop           *)
(*   natoms     *natoms as open set it                                     *)
(*   structure  what read_structure wrote (<<>> before the first call)     *)
(*   bonds      what the last read_bonds returned (<<>> before)            *)
(*   angles     what the last read_angles returned (<<>> before)           *)
(*   hist       history: which include depths have executed a #define of   *)
(*              each symbol, and whether a test of a symbol has crossed an *)
(*              include boundary downwards and upwards                     *)
(***************************************************************************)
VARIABLES pc, parse, last, hist, natoms, structure, bonds, angles, arrays

vars == <<pc, parse, last, hist, natoms, structure, bonds, angles, arrays>>

Primary == "topol.top"

\* What fgets can return to the loop of the top frame: the line put back, or
\* the next line of the file; no line means that only NULL can be returned.
Fgets(m) ==
  LET f == Top(m) IN
  IF f.unread # <<>> THEN {f.unread[1]}
  ELSE IF f.eof THEN {}
  ELSE IF f.rest # <<>> THEN {Head(f.rest)}
  ELSE IF m.nread < MaxLines THEN m.pool
  ELSE {}

\* The file position after that fgets.
Advance(m) ==
  LET f == Top(m) IN
  IF f.unread # <<>> THEN SetTop(m, [f EXCEPT !.unread = <<>>])
  ELSE IF f.rest # <<>> THEN SetTop(m, [f EXCEPT !.rest = Tail(@)])
  ELSE [m EXCEPT !.nread = @ + 1]

AtEof(m) == Top(m).unread = <<>> /\ Top(m).rest = <<>>

Parsing == pc = "parsing" /\ parse.ret = "run"

Symbols == {"X", "Y"}

NoHistory == [defby |-> [sym \in Symbols |-> {}], down |-> FALSE, up |-> FALSE]

\* The history after the loop of the top frame of m has read line l.
Note(h, m, l) ==
  LET depth == Len(m.frames) IN
  IF l.arg \notin Symbols THEN h
  ELSE IF l.k = "define" THEN [h EXCEPT !.defby[l.arg] = @ \cup {depth}]
  ELSE IF l.k \in {"ifdef", "ifndef"} /\ h.defby[l.arg] # {}
  THEN [h EXCEPT !.down = @ \/ \A d \in h.defby[l.arg] : d < depth,
                 !.up = @ \/ \A d \in h.defby[l.arg] : d > depth]
  ELSE h

\* open_grotop_read up to the first fgets.
Open ==
  /\ pc = "start"
  /\ \E filepath \in {Primary, "missing.top"} :
       parse' = parse_topology_file(parse, filepath)
  /\ pc' = "parsing"
  /\ last' = [op |-> "open", l |-> Blank]
  /\ UNCHANGED <<hist, natoms, structure, bonds, angles, arrays>>

\* The line l makes parse_include write more than the INCLUDE_PATH_SIZE
\* characters of include_path (the terminating 0 included): an #include
\* line that the loop reaches, which is past the directives and the test
\* of the conditional stack.
PathOverrun(m, l) ==
  /\ l.k = "include"
  /\ should_process(Top(m))
  /\ parse_include(Top(m).filepath, l.arg).len + 1 > INCLUDE_PATH_SIZE

\* The process is stopped (stack smashing detected, or a fault): open does
\* not return.
Abort(m) == [m EXCEPT !.ret = "abort", !.err = "include_path overrun"]

\* The fgets of the loop of parse_topology_file returns a line.  After an
\* overrun of include_path the parse either goes on with the path as
\* written or the process is stopped.
MainLine ==
  /\ Parsing
  /\ Top(parse).loop = "main"
  /\ \E l \in Fgets(parse) :
       /\ \/ parse' = parse_topology_line(Advance(parse), l)
          \/ PathOverrun(parse, l) /\ parse' = Abort(parse)
       /\ last' = [op |-> "main", l |-> l]
       /\ hist' = Note(hist, parse, l)
  /\ UNCHANGED <<pc, natoms, structure, bonds, angles, arrays>>

\* The fgets of a section parser returns a line.
SectionLine ==
  /\ Parsing
  /\ Top(parse).loop # "main"
  /\ \E l \in Fgets(parse) :
       /\ parse' = section_line(Advance(parse), l)
       /\ last' = [op |-> "section", l |-> l]
  /\ UNCHANGED <<pc, hist, natoms, structure, bonds, angles, arrays>>

\* fgets returns NULL.
EndOfFile ==
  /\ Parsing
  /\ AtEof(parse)
  /\ parse' = IF Top(parse).loop = "main" THEN parse_topology_eof(parse)
              ELSE section_eof(parse)
  /\ last' = [op |-> "eof", l |-> Blank]
  /\ UNCHANGED <<pc, hist, natoms, structure, bonds, angles, arrays>>

\* A failed activation closes its file and returns 0 to its caller.
FailReturn ==
  /\ pc = "parsing"
  /\ parse.ret = "unwind"
  /\ parse' = fail_return(parse)
  /\ last' = [op |-> "fail", l |-> Blank]
  /\ UNCHANGED <<pc, hist, natoms, structure, bonds, angles, arrays>>

\* open_grotop_read after parse_topology_file has returned.
OpenReturn ==
  /\ pc = "parsing"
  /\ parse.ret \in {"ok", "fail"}
  /\ LET data == calculate_totals(parse.data) IN
     IF parse.ret = "fail"
     THEN /\ pc' = "null"
          /\ parse' = free_data(parse)
          /\ UNCHANGED natoms
     ELSE IF data.total_atoms < 0
     THEN /\ pc' = "null"
          /\ parse' = free_data([parse EXCEPT !.data.total_atoms = data.total_atoms])
          /\ UNCHANGED natoms
     ELSE /\ pc' = "open"
          /\ parse' = [parse EXCEPT !.data = data]
          /\ natoms' = data.total_atoms
  /\ last' = [op |-> "return", l |-> Blank]
  /\ UNCHANGED <<hist, structure, bonds, angles, arrays>>

ReadStructure ==
  /\ pc = "open"
  /\ structure' = <<read_grotop_structure(parse.data)>>
  /\ UNCHANGED <<pc, parse, last, hist, natoms, bonds, angles, arrays>>

\* The arrays after a read call that leaves them as a2: recorded only where
\* the heap is followed.
Follow(a, a2) == IF a.followed THEN [a2 EXCEPT !.calls = @ + 1] ELSE a

\* A further read_bonds or read_angles call is made.
MayCall(a) == a.followed => a.calls < MaxCalls

ReadBonds ==
  /\ pc = "open"
  /\ MayCall(arrays)
  /\ \E ok_from, ok_to \in Answers(arrays) :
     \E hit \in Overruns(arrays, parse.data, Len(instantiate(parse.data, "bonds")),
                          parse.data.total_bonds) :
       LET a2 == read_bonds_arrays(arrays, parse.data, ok_from, ok_to, hit) IN
       /\ arrays.followed => a2.refusals >= 0
       /\ arrays' = Follow(arrays, a2)
       /\ bonds' = <<read_bonds_result(parse.data, ok_from, ok_to)>>
       /\ parse' = IF ok_from /\ ok_to
                   THEN overrun_table(parse, hit, instantiate(parse.data, "bonds"))
                   ELSE parse
  /\ UNCHANGED <<pc, last, hist, natoms, structure, angles>>

ReadAngles ==
  /\ pc = "open"
  /\ MayCall(arrays)
  /\ \E ok \in [1..3 -> Answers(arrays)] :
     \E h1 \in Overruns(arrays, parse.data, Len(instantiate(parse.data, "angles")),
                         parse.data.total_angles),
        h2 \in Overruns(arrays, parse.data, Len(instantiate(parse.data, "dihedrals")),
                         parse.data.total_dihedrals),
        h3 \in Overruns(arrays, parse.data, Len(instantiate(parse.data, "impropers")),
                         parse.data.total_impropers) :
       LET hit == <<h1, h2, h3>>
           a2 == read_angles_arrays(arrays, parse.data, ok, hit) IN
       /\ arrays.followed => a2.refusals >= 0
       /\ arrays' = Follow(arrays, a2)
       /\ angles' = <<read_angles_result(parse.data, ok)>>
       /\ parse' = read_angles_tables(parse, ok, hit)
  /\ UNCHANGED <<pc, last, hist, natoms, structure, bonds>>

\* close_grotop_read: with the handle, what the read calls have returned
\* from it is gone.
Close ==
  /\ pc = "open"
  /\ pc' = "closed"
  /\ parse' = close_grotop_read(parse)
  /\ arrays' = close_arrays(arrays)
  /\ structure' = <<>>
  /\ bonds' = <<>>
  /\ angles' = <<>>
  /\ UNCHANGED <<last, hist, natoms>>

Next ==
  \/ Open \/ MainLine \/ SectionLine \/ EndOfFile \/ FailReturn \/ OpenReturn
  \/ ReadStructure \/ ReadBonds \/ ReadAngles \/ Close

(***************************************************************************)
(* Spec: every primary file and every included file of up to MaxLines      *)
(* lines in all, over the lines of Lines.                                  *)
(***************************************************************************)
Lines ==
  {Define("X"), Define("Y"), Ifdef("X"), Ifdef("Y"), Ifndef("X"), Else, Endif,
   Include("mol.itp"), Include("none.itp"), Hash, Blank,
   Header("atomtypes"), Header("moleculetype"), Header("bonds"),
   Header("molecules"), Header("system"),
   Rec(<<Word(<<"A">>), Num(1)>>), Rec(<<Num(1), Num(2)>>)}

InitOn(machines, heaps) ==
  /\ pc = "start"
  /\ parse \in machines
  /\ arrays \in heaps
  /\ last = [op |-> "start", l |-> Blank]
  /\ hist = NoHistory
  /\ natoms = 0
  /\ structure = <<>>
  /\ bonds = <<>>
  /\ angles = <<>>

InitWith(machines) == InitOn(machines, {NoArrays})

Init == InitWith({NewMachine([f \in {Primary, "mol.itp"} |-> <<>>], Lines)})

Spec == Init /\ [][Next]_vars

(***************************************************************************)
(* SpecInst: whole topologies, parsed and then instantiated.  The primary  *)
(* file is one of InstFiles: up to two molecule types ("sol", then "ion")  *)
(* with the atom, bond and angle lists below, followed by a [ molecules ]  *)
(* roster of up to MaxEntries entries with counts in -1..MaxCount; and the *)
(* water topologies of the end-to-end scenarios.                           *)
(***************************************************************************)
MaxEntries == 2
MaxCount == 2

sol == <<"s", "o", "l">>
ion == <<"i", "o", "n">>

\* id type resnr residue atom cgnr charge, and the mass when it is positive.
AtomLine(id, type, resnr, mass) ==
  Rec(<<Num(id), Word(type), Num(resnr), Word(<<"R">>), Word(type), Num(id), Num(0)>>
      \o (IF mass > 0 THEN <<Num(mass)>> ELSE <<>>))

BondLine(b) == Rec(<<Num(b[1]), Num(b[2]), Num(1)>>)
AngleLine(a) == Rec(<<Num(a[1]), Num(a[2]), Num(a[3]), Num(1)>>)

\* A molecule type with the atoms of residue numbers resnrs.
MoleculeLines(name, resnrs, bondlist, anglelist) ==
  <<Header("moleculetype"), Rec(<<Word(name), Num(1)>>), Header("atoms")>>
  \o [i \in 1..Len(resnrs) |-> AtomLine(i, <<"C">>, resnrs[i], 12)]
  \o <<Header("bonds")>> \o [i \in 1..Len(bondlist) |-> BondLine(bondlist[i])]
  \o <<Header("angles")>> \o [i \in 1..Len(anglelist) |-> AngleLine(anglelist[i])]

RosterLines(roster) ==
  <<Header("molecules")>>
  \o [i \in 1..Len(roster) |-> Rec(<<Word(roster[i][1]), Num(roster[i][2])>>)]

DihedralLine(d, funct) == Rec(<<Num(d[1]), Num(d[2]), Num(d[3]), Num(d[4]), Num(funct)>>)

SolAtoms == {<<>>, <<1>>, <<1, 2>>, <<2, 1>>}
\* "sol" without bonded records, with the bond 1 2, and with the angle 1 2 1
\* as well.
SolBonded == {<<<<>>, <<>>>>, <<<<<<1, 2>>>>, <<>>>>, <<<<<<1, 2>>>>, <<<<1, 2, 1>>>>>>}
\* No second molecule type; "ion" without atoms but with a bond; "ion" with
\* one atom; "ion" with one atom, an improper and a proper dihedral.
IonLines ==
  {<<>>, MoleculeLines(ion, <<>>, <<<<1, 1>>>>, <<>>),
   MoleculeLines(ion, <<5>>, <<>>, <<>>),
   MoleculeLines(ion, <<5>>, <<>>, <<>>)
     \o <<Header("dihedrals"), DihedralLine(<<1, 1, 1, 1>>, 2),
          DihedralLine(<<1, 1, 1, 1>>, 9)>>}

RECURSIVE SeqsUpTo(_, _)
SeqsUpTo(S, n) ==
  IF n = 0 THEN {<<>>}
  ELSE SeqsUpTo(S, n - 1) \cup
       {Append(q, x) : q \in {r \in SeqsUpTo(S, n - 1) : Len(r) = n - 1}, x \in S}

Rosters == SeqsUpTo({sol, ion} \X (-1..MaxCount), MaxEntries)

OW == <<"O", "W">>
HW == <<"H", "W">>
\* S1 and S2: [ atomtypes ] OW 16, HW 1; SOL with three atoms of residue 1
\* and the bonds 1 2 and 1 3; [ molecules ] SOL count.
WaterFile(count) ==
  <<Header("atomtypes"), Rec(<<Word(OW), Num(16)>>), Rec(<<Word(HW), Num(1)>>),
    Header("moleculetype"), Rec(<<Word(<<"S", "O", "L">>), Num(2)>>),
    Header("atoms"),
    AtomLine(1, OW, 1, 0), AtomLine(2, HW, 1, 0), AtomLine(3, HW, 1, 0),
    Header("bonds"), BondLine(<<1, 2>>), BondLine(<<1, 3>>),
    Header("molecules"), Rec(<<Word(<<"S", "O", "L">>), Num(count)>>)>>

\* A file that ends inside the header of its second molecule type.
TruncatedFile ==
  MoleculeLines(sol, <<1>>, <<>>, <<>>) \o <<Header("moleculetype")>>

\* A four-atom molecule with dihedrals of funct 1, 2, 4, 9 and one without
\* a funct field, twice in the system.
dih == <<"d", "i", "h">>
DihedralFile ==
  MoleculeLines(dih, <<1, 1, 2, 2>>, <<>>, <<>>)
  \o <<Header("dihedrals"), DihedralLine(<<1, 2, 3, 4>>, 1),
       DihedralLine(<<2, 1, 3, 4>>, 2), DihedralLine(<<1, 3, 2, 4>>, 4),
       DihedralLine(<<4, 3, 2, 1>>, 9),
       Rec(<<Num(3), Num(1), Num(2), Num(4)>>)>>
  \o RosterLines(<<<<dih, 2>>>>)

\* One molecule "water" whose atoms are: type C without a mass field, type C
\* with mass 14, type N without a mass field, type C with mass -3; after an
\* [ atomtypes ] section with the records types, which are for type C only.
water == <<"w", "a", "t", "e", "r">>
MassAtomLine(id, type, masses) ==
  Rec(<<Num(id), Word(type), Num(1), Word(<<"R">>), Word(type), Num(id), Num(id - 2)>>
      \o masses)
WaterLines ==
  <<Header("moleculetype"), Rec(<<Word(water), Num(1)>>), Header("atoms"),
    MassAtomLine(1, <<"C">>, <<>>), MassAtomLine(2, <<"C">>, <<Num(14)>>),
    MassAtomLine(3, <<"N">>, <<>>), MassAtomLine(4, <<"C">>, <<Num(-3)>>)>>
MassFile(types) ==
  <<Header("atomtypes")>> \o types \o WaterLines \o RosterLines(<<<<water, 1>>>>)

TypeC(mass) == Rec(<<Word(<<"C">>), Num(mass)>>)
MassFiles ==
  {MassFile(types) :
     types \in {<<>>, <<TypeC(12)>>, <<TypeC(0)>>, <<TypeC(-1)>>, <<TypeC(0), TypeC(12)>>}}

InstFiles ==
  {MoleculeLines(sol, a, b[1], b[2]) \o i \o RosterLines(r) :
     a \in SolAtoms, b \in SolBonded, i \in IonLines, r \in Rosters}
  \cup {WaterFile(1), WaterFile(3), TruncatedFile, DihedralFile} \cup MassFiles

InitInst == InitWith({NewMachine([f \in {Primary} |-> file], {}) : file \in InstFiles})

SpecInst == InitInst /\ [][Next]_vars

(***************************************************************************)
(* Properties of the preprocessor and the section dispatcher (Spec).       *)
(***************************************************************************)
Tables(data) == <<data.atomtypes, data.moltypes, data.molnames, data.molcounts>>

\* C1: a record line that is inactive when it is read (the conditional stack
\* of the reading frame is non-empty and not all-true) contributes to no
\* table: the step that reads it leaves the atom types, the molecule types
\* with their atoms, bonds, angles and dihedrals, and the roster as they were,
\* also when the directive that made it inactive sits between the records of
\* an open section.
C1_InactiveRecordSkipped ==
  [][(/\ Parsing
      /\ last'.op \in {"main", "section"}
      /\ last'.l.k = "rec"
      /\ ~should_process(Top(parse)))
     => Tables(parse'.data) = Tables(parse.data)]_vars

\* The loop in which process_section leaves the top frame of m for its
\* current section.
SectionLoop(m) == Top(process_section(m, Top(m).current_section)).loop

DirectiveKinds == {"define", "ifdef", "ifndef", "else", "endif"}

\* C2: when the loop of parse_topology_file has consumed a #define, #ifdef,
\* #ifndef, #else or #endif while current_section is non-empty, and when an
\* #include that it has consumed in that situation returns, the frame is in
\* the parser of that section again, so that the records that follow are
\* parsed as records of that section.
C2_ReentryAfterDirective ==
  [][/\ (/\ Parsing
         /\ last'.op = "main"
         /\ last'.l.k \in DirectiveKinds
         /\ Top(parse).current_section # ""
         /\ parse'.ret = "run")
        => Top(parse').loop = SectionLoop(parse')
     /\ (/\ Parsing
         /\ last'.op = "eof"
         /\ parse'.ret = "run"
         /\ Len(parse'.frames) < Len(parse.frames)
         /\ Top(parse').current_section # "")
        => Top(parse').loop = SectionLoop(parse')]_vars

(***************************************************************************)
(* The parse of stored files run to completion: parse_topology_file as     *)
(* open_grotop_read calls it, every fgets taking the next stored line.     *)
(***************************************************************************)
parse_step(m) ==
  IF m.ret = "unwind" THEN fail_return(m)
  ELSE IF Fgets(m) = {}
  THEN IF Top(m).loop = "main" THEN parse_topology_eof(m) ELSE section_eof(m)
  ELSE LET l == CHOOSE x \in Fgets(m) : TRUE IN
       IF Top(m).loop = "main" THEN parse_topology_line(Advance(m), l)
       ELSE section_line(Advance(m), l)

\* One more iteration, unless parse_topology_file has returned.
next_step(m) == IF m.ret \in {"ok", "fail"} THEN m ELSE parse_step(m)

\* A run of iterations, taken together to keep the recursion below shallow.
some_steps(m) ==
  next_step(next_step(next_step(next_step(next_step(next_step(next_step(next_step(m))))))))

RECURSIVE parse_steps(_)
parse_steps(m) == IF m.ret \in {"ok", "fail"} THEN m ELSE parse_steps(some_steps(m))

\* The machine after parsing the primary file text with the included files inc.
Run(text, inc) ==
  parse_steps(parse_topology_file(
    NewMachine([f \in {Primary} \cup DOMAIN inc |->
                  IF f = Primary THEN text ELSE inc[f]], {}), Primary))

MolM == <<Header("moleculetype"), Rec(<<Word(<<"M">>), Num(1)>>)>>
RecA == Rec(<<Word(<<"A">>), Num(1)>>)
Rec12 == Rec(<<Num(1), Num(2)>>)

(***************************************************************************)
(* SpecBlock: a primary file  #define X, pre, #ifdef X, [ section ], body, *)
(* #endif, post.  The records of the section inside the block begin with   *)
(* the number 7, which no other record does.                               *)
(***************************************************************************)
Rec78 == Rec(<<Num(7), Num(8)>>)
Seven == <<"7">>

BlockPre == {<<>>, <<Header("atomtypes"), RecA>>, MolM, MolM \o <<Header("bonds"), Rec12>>}
BlockBody == {<<Rec78>>, <<Rec78, Blank, Rec78>>, <<Define("Y"), Rec78>>}
BlockPost ==
  {<<>>, <<Header("atomtypes"), RecA>>, <<Header("molecules"), Rec(<<Word(<<"M">>), Num(1)>>)>>}

BlockFiles ==
  {<<Define("X")>> \o pre \o <<Ifdef("X"), Header(h)>> \o body \o <<Endif>> \o post :
     pre \in BlockPre, h \in {"atomtypes", "molecules"}, body \in BlockBody,
     post \in BlockPost}
  \cup
  {<<Define("X")>> \o pre \o <<Ifdef("X"), Header("bonds")>> \o body \o <<Endif>> \o post :
     pre \in {p \in BlockPre : p # <<>> /\ p[1] = Header("moleculetype")},
     body \in BlockBody, post \in BlockPost}

InitBlock == InitWith({NewMachine([f \in {Primary} |-> file], {}) : file \in BlockFiles})

SpecBlock == InitBlock /\ [][Next]_vars

\* The section of the block of a file of BlockFiles and its number of records.
BlockSection(text) == text[(CHOOSE i \in 1..Len(text) : text[i] = Ifdef("X")) + 1].arg
BlockRecords(text) == Cardinality({i \in 1..Len(text) : text[i] = Rec78})

\* The entries that records beginning with 7 have left in the table of a
\* section, and in all tables.
SevensIn(data, section) ==
  CASE section = "atomtypes" ->
         Cardinality({i \in 1..Len(data.atomtypes) : data.atomtypes[i].name = Seven})
    [] section = "molecules" ->
         Cardinality({i \in 1..Len(data.molnames) : data.molnames[i] = Seven})
    [] section = "bonds" ->
         Cardinality({ki \in (1..Len(data.moltypes)) \X (1..4) :
                        /\ ki[2] <= Len(data.moltypes[ki[1]].bonds)
                        /\ data.moltypes[ki[1]].bonds[ki[2]].ai = 7})
    [] section = "moleculetype" ->
         Cardinality({i \in 1..Len(data.moltypes) : data.moltypes[i].name = Seven})

Sevens(data) ==
  SevensIn(data, "atomtypes") + SevensIn(data, "molecules") + SevensIn(data, "bonds")
  + SevensIn(data, "moleculetype")

\* The tables without those entries.
WithoutSevens(data) ==
  LET keep(i) == data.molnames[i] # Seven
      kept == SelectSeq([i \in 1..Len(data.molnames) |-> i], keep) IN
  <<SelectSeq(data.atomtypes, LAMBDA t : t.name # Seven),
    [k \in 1..Len(data.moltypes) |->
       [data.moltypes[k] EXCEPT !.bonds = SelectSeq(@, LAMBDA b : b.ai # 7)]],
    [i \in 1..Len(kept) |-> data.molnames[kept[i]]],
    [i \in 1..Len(kept) |-> data.molcounts[kept[i]]]>>

\* C3: for a section whose header and records all lie inside one
\* #ifdef X ... #endif block: with X defined the parse succeeds and every
\* record of the section is in the section's table; with the #define X line
\* removed no record of the section is in any table; and the tables are
\* otherwise the same in both cases.
C3_WholeSectionInBlock ==
  (pc = "parsing" /\ parse.ret \in {"ok", "fail"} /\ parse.err # "Cannot open file") =>
    LET text == parse.fs[Primary]
        without == Run(Tail(text), <<>>) IN
    /\ parse.ret = "ok"
    /\ SevensIn(parse.data, BlockSection(text)) = BlockRecords(text)
    /\ without.ret = "ok"
    /\ Sevens(without.data) = 0
    /\ WithoutSevens(parse.data) = WithoutSevens(without.data)

(***************************************************************************)
(* SpecFlat: a primary file  pre, #include "mol.itp", post  and the file   *)
(* mol.itp.                                                                *)
(***************************************************************************)
RosterM == <<Header("molecules"), Rec(<<Word(<<"M">>), Num(1)>>)>>
AtomtypesIf(sym) == <<Ifdef(sym), Header("atomtypes"), RecA, Endif>>

FlatPre == {<<>>, <<Define("X")>>, <<Header("atomtypes")>>, MolM}
FlatIncluded ==
  {<<>>, <<RecA>>, <<Header("atomtypes"), RecA>>, <<Header("bonds"), Rec12>>,
   <<Define("Y")>>, MolM, AtomtypesIf("X")}
FlatPost == {<<>>, <<RecA>>, <<Header("bonds"), Rec12>>, RosterM, AtomtypesIf("Y")}

InitFlat ==
  InitWith({NewMachine([f \in {Primary, "mol.itp"} |->
                          IF f = Primary THEN pre \o <<Include("mol.itp")>> \o post
                          ELSE inc], {}) :
              pre \in FlatPre, inc \in FlatIncluded, post \in FlatPost})

SpecFlat == InitFlat /\ [][Next]_vars

\* The text with every #include of a file of inc replaced by that file's lines.
RECURSIVE Flatten(_, _)
Flatten(text, inc) ==
  IF text = <<>> THEN <<>>
  ELSE (IF Head(text).k = "include" /\ Head(text).arg \in DOMAIN inc
        THEN inc[Head(text).arg] ELSE <<Head(text)>>)
       \o Flatten(Tail(text), inc)

\* C4: include flattening: parsing the primary file with the #include line
\* replaced by the lines of the included file succeeds exactly when parsing
\* with the #include does, and then yields the same molecule types, atom
\* types, roster and define-set.
C4_IncludeFlattening ==
  (pc = "parsing" /\ parse.ret \in {"ok", "fail"} /\ last.op # "open") =>
    LET flat == Run(Flatten(parse.fs[Primary], parse.fs), <<>>) IN
    /\ flat.ret = parse.ret
    /\ parse.ret = "ok" =>
         /\ Tables(flat.data) = Tables(parse.data)
         /\ flat.data.defines = parse.data.defines

(***************************************************************************)
(* Properties of include frames (Spec).                                    *)
(***************************************************************************)
\* C5: the define-set is shared by all include frames of one parse: whenever
\* an #ifdef or #ifndef is evaluated, at any include depth, its symbol counts
\* as defined exactly if some frame, at whatever depth, has executed a
\* #define of it before; so a symbol defined before an #include is defined
\* inside the included file, and a symbol defined inside an included file is
\* defined for the parent after the include returns.
C5_DefinesSharedByFrames ==
  (pc = "parsing" /\ parse.ret = "run" /\ last.op = "main"
   /\ last.l.k \in {"ifdef", "ifndef"}) =>
    Last(Top(parse).ifdef_stack)
      = ((hist.defby[last.l.arg] # {}) <=> (last.l.k = "ifdef"))

\* An included file has tested a symbol that only shallower frames had
\* defined, and a file has tested a symbol that only files it includes had
\* defined.
C5_TestsAcrossIncludes == hist.down /\ hist.up

RECURSIVE SumTo(_, _)
SumTo(f, n) == IF n <= 0 THEN 0 ELSE f[n] + SumTo(f, n - 1)

Opened == pc \in {"open", "closed"}

\* The molecule type of roster entry e.
EntryType(data, e) == data.moltypes[find_moltype(data, data.molnames[e])]

\* The sum over the roster entries of count x the number of records that
\* counted(mt) gives for the entry's molecule type.
RosterSum(data, counted(_)) ==
  SumTo([e \in 1..Len(data.molnames) |->
           data.molcounts[e] * counted(EntryType(data, e))], Len(data.molnames))

NumAtoms(mt) == Len(mt.atoms)
NumBonds(mt) == Len(mt.bonds)
NumAngles(mt) == Len(mt.angles)
NumImpropers(mt) == Cardinality({j \in 1..Len(mt.dihedrals) : mt.dihedrals[j].funct \in {2, 4}})
NumPropers(mt) == Len(mt.dihedrals) - NumImpropers(mt)

\* Every index of every tuple of the sequence is an atom of the system.
InRange(tuples) ==
  \A i \in 1..Len(tuples) : \A j \in 1..Len(tuples[i]) :
    1 <= tuples[i][j] /\ tuples[i][j] <= natoms

\* C7: on every handle that open returns, every index of every tuple that
\* read_bonds and read_angles emit (bonds, angles, proper dihedrals,
\* impropers) lies in 1..total_atoms.
C7_IndicesWithinAtoms ==
  Opened =>
    /\ bonds # <<>> => InRange(bonds[1].pairs)
    /\ angles # <<>> =>
         /\ InRange(angles[1].angles)
         /\ InRange(angles[1].dihedrals)
         /\ InRange(angles[1].impropers)

\* C8: the atom count that open returns is the sum over the roster entries
\* of count x natoms of the entry's molecule type, and the counts that
\* read_bonds and read_angles report are the same sums for bonds, angles,
\* proper dihedrals and impropers; with an empty roster all five are 0.
C8_CountsAreRosterSums ==
  Opened =>
    /\ natoms = RosterSum(parse.data, NumAtoms)
    /\ (bonds # <<>> /\ bonds[1].rc = "MOLFILE_SUCCESS")
         => bonds[1].nbonds = RosterSum(parse.data, NumBonds)
    /\ angles # <<>> =>
         /\ angles[1].numangles = RosterSum(parse.data, NumAngles)
         /\ angles[1].numdihedrals = RosterSum(parse.data, NumPropers)
         /\ angles[1].numimpropers = RosterSum(parse.data, NumImpropers)

\* The molecule types of the instances, one per copy, in roster-then-copy
\* order.
RECURSIVE InstancesFrom(_, _)
InstancesFrom(data, e) ==
  IF e > Len(data.molnames) THEN <<>>
  ELSE (IF data.molcounts[e] > 0
        THEN [c \in 1..data.molcounts[e] |-> EntryType(data, e)] ELSE <<>>)
       \o InstancesFrom(data, e + 1)

Instances == InstancesFrom(parse.data, 1)

\* min_r and max_r of a molecule type; a molecule type without atoms counts
\* as the one residue 1.
Resnrs(mt) == {mt.atoms[i].resnr : i \in 1..Len(mt.atoms)}
MinR(mt) == IF Resnrs(mt) = {} THEN 1 ELSE CHOOSE r \in Resnrs(mt) : \A q \in Resnrs(mt) : r <= q
MaxR(mt) == IF Resnrs(mt) = {} THEN 1 ELSE CHOOSE r \in Resnrs(mt) : \A q \in Resnrs(mt) : r >= q

\* For the instances inst: the number of atoms of the instances before
\* instance k, and the sum of max_r - min_r + 1 over them.
AtomsBefore(inst, k) == SumTo([j \in 1..Len(inst) |-> Len(inst[j].atoms)], k - 1)
ResidBase(inst, k) ==
  SumTo([j \in 1..Len(inst) |-> MaxR(inst[j]) - MinR(inst[j]) + 1], k - 1)

\* The instance of global atom g and the atom record that g is a copy of.
InstanceOf(inst, g) ==
  CHOOSE k \in 1..Len(inst) :
    AtomsBefore(inst, k) < g /\ g <= AtomsBefore(inst, k) + Len(inst[k].atoms)
RecordOf(inst, g) == inst[InstanceOf(inst, g)].atoms[g - AtomsBefore(inst, InstanceOf(inst, g))]

Resids == [g \in 1..Len(structure[1]) |-> structure[1][g].resid]

\* C9 as stated: resid is non-decreasing along the global atom order, and
\* strictly increasing from the last atom of an instance to the first atom of
\* the next.
C9_ResidNonDecreasing ==
  structure # <<>> =>
    LET inst == Instances IN
    \A g \in 1..(Len(Resids) - 1) :
      /\ Resids[g] <= Resids[g + 1]
      /\ InstanceOf(inst, g) # InstanceOf(inst, g + 1) => Resids[g] < Resids[g + 1]

\* C9: along the global atom order resid decreases from one atom to the next
\* only between two atoms of one molecule instance whose resnr decreases in
\* the [ atoms ] section of the molecule type; from the last atom of an
\* instance to the first atom of the next, resid strictly increases.
C9_ResidFollowsResnr ==
  structure # <<>> =>
    LET inst == Instances IN
    \A g \in 1..(Len(Resids) - 1) :
      IF InstanceOf(inst, g) = InstanceOf(inst, g + 1)
      THEN Resids[g] > Resids[g + 1]
             => RecordOf(inst, g).resnr > RecordOf(inst, g + 1).resnr
      ELSE Resids[g] < Resids[g + 1]

\* read_structure has written two instances of a molecule type whose resnr
\* decreases: a decrease of resid inside an instance, and a boundary.
C9_UnsortedAndBoundary ==
  /\ structure # <<>>
  /\ \E g \in 1..(Len(Resids) - 1) : Resids[g] > Resids[g + 1]
  /\ \E g \in 1..(Len(Resids) - 1) :
       InstanceOf(Instances, g) # InstanceOf(Instances, g + 1)

\* C10: read_structure writes the atoms of all instances in order, and each
\* atom of instance k with resid = resnr - min_r + 1 + resid_base, resid_base
\* being the sum of max_r - min_r + 1 over the instances before k.
C10_ResidFormula ==
  structure # <<>> =>
    LET inst == Instances IN
    /\ Len(structure[1]) = AtomsBefore(inst, Len(inst) + 1)
    /\ \A k \in 1..Len(inst) : \A i \in 1..Len(inst[k].atoms) :
         structure[1][AtomsBefore(inst, k) + i].resid
           = inst[k].atoms[i].resnr - MinR(inst[k]) + 1 + ResidBase(inst, k)

\* Three copies of a one-residue three-atom molecule: 1,1,1,2,2,2,3,3,3.
C10_ThreeWaters ==
  /\ structure # <<>>
  /\ Len(structure[1]) = 9
  /\ Resids = <<1, 1, 1, 2, 2, 2, 3, 3, 3>>

\* The records of a molecule type that belong in a table, and the indices of
\* a record of that table.
TableRecords(mt, table) ==
  CASE table = "bonds" -> mt.bonds
    [] table = "angles" -> mt.angles
    [] table = "propers" -> SelectSeq(mt.dihedrals, LAMBDA d : d.funct \notin {2, 4})
    [] table = "impropers" -> SelectSeq(mt.dihedrals, LAMBDA d : d.funct \in {2, 4})

Indices(r, table) ==
  CASE table = "bonds" -> <<r.ai, r.aj>>
    [] table = "angles" -> <<r.ai, r.aj, r.ak>>
    [] OTHER -> <<r.ai, r.aj, r.ak, r.al>>

\* The table of the instances inst from instance k on: instance after
\* instance, record after record, every index increased by the number of
\* atoms of the instances before.
RECURSIVE TableFrom(_, _, _)
TableFrom(inst, table, k) ==
  IF k > Len(inst) THEN <<>>
  ELSE [i \in 1..Len(TableRecords(inst[k], table)) |->
          [j \in 1..Len(Indices(TableRecords(inst[k], table)[i], table)) |->
             Indices(TableRecords(inst[k], table)[i], table)[j] + AtomsBefore(inst, k)]]
       \o TableFrom(inst, table, k + 1)

\* What the caller of read_bonds / read_angles receives for a table: the
\* first count tuples of the array.
Emitted(table) ==
  CASE table = "bonds" -> SubSeq(bonds[1].pairs, 1, bonds[1].nbonds)
    [] table = "angles" -> SubSeq(angles[1].angles, 1, angles[1].numangles)
    [] table = "propers" -> SubSeq(angles[1].dihedrals, 1, angles[1].numdihedrals)
    [] table = "impropers" -> SubSeq(angles[1].impropers, 1, angles[1].numimpropers)

NoNegativeCount ==
  \A e \in 1..Len(parse.data.molcounts) : parse.data.molcounts[e] >= 0

\* The emitted table begins the table of the instances, and is all of it
\* when no roster entry has a negative count.
InInstanceOrder(table) ==
  LET expected == TableFrom(Instances, table, 1) IN
  /\ Len(Emitted(table)) <= Len(expected)
  /\ Emitted(table) = SubSeq(expected, 1, Len(Emitted(table)))
  /\ NoNegativeCount => Emitted(table) = expected

\* C11: in every emitted table (bonds, angles, proper dihedrals, impropers)
\* the tuples stand in roster order, then copy order, then the record order
\* of the molecule type, and each tuple is the record with every index
\* increased by the number of atoms of all copies before its copy.
C11_TablesInInstanceOrder ==
  /\ (bonds # <<>> /\ bonds[1].rc = "MOLFILE_SUCCESS") => InInstanceOrder("bonds")
  /\ angles # <<>> =>
       /\ InInstanceOrder("angles")
       /\ InInstanceOrder("propers")
       /\ InInstanceOrder("impropers")

\* Three waters: the bonds (1,2),(1,3),(4,5),(4,6),(7,8),(7,9).
C11_ThreeWatersBonds ==
  /\ bonds # <<>>
  /\ Emitted("bonds") = <<<<1, 2>>, <<1, 3>>, <<4, 5>>, <<4, 6>>, <<7, 8>>, <<7, 9>>>>

\* How often tuple t stands in the sequence.
Occurrences(tuples, t) == Cardinality({i \in 1..Len(tuples) : tuples[i] = t})

\* C12: the proper and the improper table of read_angles partition the
\* instantiated [ dihedrals ] records: every record of every copy with funct
\* 2 or 4 stands in the improper table and not in the proper table, every
\* other record (a missing funct is stored as 0) in the proper table and not
\* in the improper table, and nothing else stands in either.
C12_DihedralsPartitioned ==
  angles # <<>> =>
    LET propers == TableFrom(Instances, "propers", 1)
        impropers == TableFrom(Instances, "impropers", 1)
        tuples == {propers[i] : i \in 1..Len(propers)}
                  \cup {impropers[i] : i \in 1..Len(impropers)}
                  \cup {Emitted("propers")[i] : i \in 1..Len(Emitted("propers"))}
                  \cup {Emitted("impropers")[i] : i \in 1..Len(Emitted("impropers"))}
    IN \A t \in tuples :
         /\ Occurrences(Emitted("propers"), t) = Occurrences(propers, t)
         /\ Occurrences(Emitted("impropers"), t) = Occurrences(impropers, t)

\* The mass of the first record of the atom-type table for a type, 0 when
\* the table has none.
TableMass(data, type) ==
  LET rows == {i \in 1..Len(data.atomtypes) : data.atomtypes[i].name = type} IN
  IF rows = {} THEN 0
  ELSE data.atomtypes[CHOOSE i \in rows : \A j \in rows : i <= j].mass

\* C13: every emitted atom has the mass of its atom record when that is
\* positive, otherwise the mass that the atom-type table stores for the
\* record's atom_type, otherwise 0 when the table does not have the type;
\* and the charge of its atom record.
C13_MassAndCharge ==
  structure # <<>> =>
    LET inst == Instances IN
    \A g \in 1..Len(structure[1]) :
      LET src == RecordOf(inst, g) IN
      /\ structure[1][g].mass = IF src.mass > 0 THEN src.mass
                                ELSE TableMass(parse.data, src.atom_type)
      /\ structure[1][g].charge = src.charge

\* Mass back-fill: an atom without a mass field gets 12 from the table, next
\* to an atom that keeps its own 14, an atom of a type the table lacks that
\* gets 0, and an atom whose own mass is negative that gets 12.
C13_MassBackFilled ==
  /\ structure # <<>>
  /\ Len(structure[1]) = 4
  /\ [g \in 1..4 |-> structure[1][g].mass] = <<12, 14, 0, 12>>
  /\ [g \in 1..4 |-> structure[1][g].charge] = <<-1, 0, 1, 2>>

\* C14: every emitted atom has mass >= 0, and mass > 0 whenever its atom
\* record has a positive mass or the atom-type table has a record with its
\* atom_type and a positive mass.
C14_MassNotNegative ==
  structure # <<>> =>
    LET inst == Instances IN
    \A g \in 1..Len(structure[1]) :
      LET src == RecordOf(inst, g) IN
      /\ structure[1][g].mass >= 0
      /\ (\/ src.mass > 0
          \/ \E i \in 1..Len(parse.data.atomtypes) :
               /\ parse.data.atomtypes[i].name = src.atom_type
               /\ parse.data.atomtypes[i].mass > 0)
         => structure[1][g].mass > 0

LowerCase == <<"a", "b", "c", "d", "e", "f", "g", "h", "i", "j", "k", "l", "m",
               "n", "o", "p", "q", "r", "s", "t", "u", "v", "w", "x", "y", "z">>
UpperCase == <<"A", "B", "C", "D", "E", "F", "G", "H", "I", "J", "K", "L", "M",
               "N", "O", "P", "Q", "R", "S", "T", "U", "V", "W", "X", "Y", "Z">>
Upper(c) ==
  IF \E i \in 1..26 : LowerCase[i] = c
  THEN UpperCase[CHOOSE i \in 1..26 : LowerCase[i] = c] ELSE c

\* C15: every atom of every copy of a roster entry has as segid the first
\* four characters of the name of the entry's molecule type in upper case,
\* and an empty chain.
C15_SegidFromName ==
  structure # <<>> =>
    LET inst == Instances IN
    \A g \in 1..Len(structure[1]) :
      LET name == inst[InstanceOf(inst, g)].name IN
      /\ structure[1][g].segid =
           [j \in 1..(IF Len(name) < 4 THEN Len(name) ELSE 4) |-> Upper(name[j])]
      /\ structure[1][g].chain = <<>>

\* The atoms of "water" have the segid WATE.
C15_WaterSegid ==
  /\ structure # <<>>
  /\ Len(structure[1]) = 4
  /\ \A g \in 1..4 : structure[1][g].segid = <<"W", "A", "T", "E">>

(***************************************************************************)
(* SpecCons: one molecule type with a [ bonds ] and a [ constraints ]      *)
(* section, in either order.                                               *)
(***************************************************************************)
ConsBonds == {<<>>, <<<<1, 2>>>>, <<<<1, 2>>, <<2, 3>>>>}
ConsConstraints == {<<>>, <<<<2, 3>>>>, <<<<2, 3>>, <<3, 4>>>>, <<<<1, 2>>>>}
ConsRecord(b) == Rec(<<Num(b[1]), Num(b[2])>>)
ConsSection(name, records) ==
  <<Header(name)>> \o [i \in 1..Len(records) |-> ConsRecord(records[i])]
ConsHead ==
  MolM \o <<Header("atoms")>> \o [i \in 1..4 |-> AtomLine(i, <<"C">>, 1, 12)]
ConsFiles ==
  {ConsHead \o first \o second \o <<Header("molecules"), Rec(<<Word(<<"M">>), Num(n)>>)>> :
     first \in {ConsSection("bonds", b) : b \in ConsBonds},
     second \in {ConsSection("constraints", c) : c \in ConsConstraints}, n \in 1..2}
  \cup
  {ConsHead \o first \o second \o <<Header("molecules"), Rec(<<Word(<<"M">>), Num(n)>>)>> :
     first \in {ConsSection("constraints", c) : c \in ConsConstraints},
     second \in {ConsSection("bonds", b) : b \in ConsBonds}, n \in 1..2}
  \cup {TruncatedFile}

InitCons == InitWith({NewMachine([f \in {Primary} |-> file], {}) : file \in ConsFiles})

SpecCons == InitCons /\ [][Next]_vars

\* The section and the molecule type header that line i of a text stands under.
HeaderOf(text, i, names) ==
  LET hs == {h \in 1..(i - 1) : text[h].k = "header" /\ text[h].arg \in names} IN
  IF hs = {} THEN 0 ELSE CHOOSE h \in hs : \A g \in hs : g <= h
AllSections ==
  {"atomtypes", "moleculetype", "atoms", "bonds", "constraints", "angles",
   "dihedrals", "molecules", "defaults", "system"}
SectionAt(text, i) ==
  IF HeaderOf(text, i, AllSections) = 0 THEN "" ELSE text[HeaderOf(text, i, AllSections)].arg
MoleculeAt(text, i) == HeaderOf(text, i, {"moleculetype"})

\* The text with line i moved to stand right after line k.
MoveAfter(text, i, k) ==
  LET without == [j \in 1..(Len(text) - 1) |-> IF j < i THEN text[j] ELSE text[j + 1]]
      at == IF k < i THEN k ELSE k - 1 IN
  SubSeq(without, 1, at) \o <<text[i]>> \o SubSeq(without, at + 1, Len(without))

\* The moves of one record from a [ constraints ] section to a place in the
\* [ bonds ] section of the same molecule type: <<i, k>> stands for
\* MoveAfter(text, i, k).
ConstraintMoves(text) ==
  {ik \in (1..Len(text)) \X (1..Len(text)) :
     /\ text[ik[1]].k = "rec" /\ SectionAt(text, ik[1]) = "constraints"
     /\ \/ text[ik[2]] = Header("bonds")
        \/ text[ik[2]].k = "rec" /\ SectionAt(text, ik[2]) = "bonds"
     /\ MoleculeAt(text, ik[1]) = MoleculeAt(text, ik[2] + 1)}

\* The records of the [ bonds ] and [ constraints ] sections, in file order.
BondedLines(text) ==
  LET at == SelectSeq([i \in 1..Len(text) |-> i],
                      LAMBDA i : /\ text[i].k = "rec"
                                 /\ SectionAt(text, i) \in {"bonds", "constraints"}) IN
  [n \in 1..Len(at) |-> text[at[n]]]

\* The bond table that read_bonds gives after open of a text.
BondTableOf(text) ==
  LET run == Run(text, <<>>)
      data == calculate_totals(run.data)
      r == read_grotop_bonds(data) IN
  IF run.ret = "ok" /\ data.total_atoms >= 0 /\ r.rc = "MOLFILE_SUCCESS"
  THEN SubSeq(r.pairs, 1, r.nbonds)
  ELSE <<"none">>

\* C16: moving a record from the [ constraints ] section of a molecule
\* type to its [ bonds ] section leaves the bond table of read_bonds with the
\* same count and the same pairs, each as often as before; the sequence of
\* the pairs is the same when the move does not change the order in which
\* the records of the two sections stand in the file.
C16_ConstraintAsBond ==
  (bonds # <<>> /\ bonds[1].rc = "MOLFILE_SUCCESS") =>
    LET text == parse.fs[Primary]
        table == Emitted("bonds") IN
    \A ik \in ConstraintMoves(text) :
      LET moved == MoveAfter(text, ik[1], ik[2])
          other == BondTableOf(moved) IN
      /\ Len(other) = Len(table)
      /\ \A n \in 1..Len(table) : Occurrences(other, table[n]) = Occurrences(table, table[n])
      /\ BondedLines(moved) = BondedLines(text) => other = table

\* [ bonds ] 1 2, [ constraints ] 2 3, M 1: the table is (1,2), (2,3), and
\* the constraint can be moved.
C16_ConstraintEmittedAsBond ==
  /\ bonds # <<>>
  /\ Emitted("bonds") = <<<<1, 2>>, <<2, 3>>>>
  /\ ConstraintMoves(parse.fs[Primary]) # {}
  /\ \E i \in 1..Len(parse.fs[Primary]) :
       /\ parse.fs[Primary][i] = Header("constraints")
       /\ parse.fs[Primary][i - 1] = ConsRecord(<<1, 2>>)

\* C16 as stated: every such move leaves the sequence of pairs unchanged.
C16_SameSequenceAfterMove ==
  (bonds # <<>> /\ bonds[1].rc = "MOLFILE_SUCCESS") =>
    \A ik \in ConstraintMoves(parse.fs[Primary]) :
      BondTableOf(MoveAfter(parse.fs[Primary], ik[1], ik[2])) = Emitted("bonds")

(***************************************************************************)
(* SpecTypes: the molecule "water", an #include of mol.itp and the roster, *)
(* with [ atomtypes ] sections before, between and after them and in       *)
(* mol.itp.                                                                *)
(***************************************************************************)
TypesC(mass) == <<Header("atomtypes"), TypeC(mass)>>
TypesN == <<Header("atomtypes"), Rec(<<Word(<<"N">>), Num(14)>>)>>
TypesPrimary ==
  {pre \o WaterLines \o mid \o <<Include("mol.itp")>> \o RosterLines(<<<<water, 1>>>>)
   \o post : pre \in {<<>>, TypesC(12)}, mid \in {<<>>, TypesC(12)},
             post \in {<<>>, TypesC(12)}}
TypesIncluded == {<<>>, TypesC(13), TypesN}

InitTypes ==
  InitWith({NewMachine([f \in {Primary, "mol.itp"} |->
                          IF f = Primary THEN text ELSE inc], {}) :
              text \in TypesPrimary, inc \in TypesIncluded}
           \cup {NewMachine([f \in {Primary} |-> TruncatedFile], {})})

SpecTypes == InitTypes /\ [][Next]_vars

\* The last line of the section whose header is line i of a text.
SectionEnd(text, i) ==
  CHOOSE e \in i..Len(text) :
    /\ \A j \in (i + 1)..e : text[j].k = "rec"
    /\ e = Len(text) \/ text[e + 1].k # "rec"

\* The places of a text where a section can stand: before a section header,
\* before an #include line, and at the end.
Boundaries(text) ==
  {k \in 1..(Len(text) + 1) : k = Len(text) + 1 \/ text[k].k \in {"header", "include"}}

Longest(fs) ==
  CHOOSE n \in {Len(fs[f]) : f \in DOMAIN fs} : \A f \in DOMAIN fs : Len(fs[f]) <= n

\* The moves of one [ atomtypes ] section, header and records: <<f, i, g, k>>
\* takes the section at line i of file f and puts it before line k of file g.
TypesMoves(fs) ==
  {m \in (DOMAIN fs) \X (1..Longest(fs)) \X (DOMAIN fs) \X (1..(Longest(fs) + 1)) :
     /\ m[2] <= Len(fs[m[1]])
     /\ fs[m[1]][m[2]] = Header("atomtypes")
     /\ m[4] \in Boundaries(fs[m[3]])
     /\ m[1] = m[3] => (m[4] <= m[2] \/ m[4] > SectionEnd(fs[m[1]], m[2]))}

MoveSection(fs, m) ==
  LET f == m[1]
      i == m[2]
      g == m[3]
      k == m[4]
      e == SectionEnd(fs[f], i)
      section == SubSeq(fs[f], i, e)
      cut == SubSeq(fs[f], 1, i - 1) \o SubSeq(fs[f], e + 1, Len(fs[f]))
      into(text, at) == SubSeq(text, 1, at - 1) \o section \o SubSeq(text, at, Len(text))
  IN IF f = g
     THEN [fs EXCEPT ![f] = into(cut, IF k <= i THEN k ELSE k - (e - i + 1))]
     ELSE [fs EXCEPT ![f] = cut, ![g] = into(fs[g], k)]

\* The masses that read_structure emits after open of the files fs.
MassesOf(fs) ==
  LET run == Run(fs[Primary], fs)
      data == calculate_totals(run.data) IN
  IF run.ret = "ok" /\ data.total_atoms >= 0
  THEN LET atoms == read_grotop_structure(data) IN
       [g \in 1..Len(atoms) |-> atoms[g].mass]
  ELSE <<"none">>

\* The records of the [ atomtypes ] sections of the files in reading order,
\* and the first of them for each type name.
TypeLines(fs) ==
  LET flat == Flatten(fs[Primary], fs)
      at == SelectSeq([i \in 1..Len(flat) |-> i],
                      LAMBDA i : flat[i].k = "rec" /\ SectionAt(flat, i) = "atomtypes") IN
  [n \in 1..Len(at) |-> flat[at[n]]]
FirstTypeLines(fs) ==
  LET lines == TypeLines(fs) IN
  {lines[n] : n \in {n \in 1..Len(lines) :
                       \A j \in 1..(n - 1) : lines[j].toks[1] # lines[n].toks[1]}}

\* C17: moving an [ atomtypes ] section, header and records, to another
\* place between sections (before or after the molecule types that use it,
\* in the primary or the included file) does not change the mass of any atom
\* that read_structure emits, as long as the first record of every type name
\* in reading order stays the same.
C17_AtomtypesPositionFree ==
  structure # <<>> =>
    LET masses == [g \in 1..Len(structure[1]) |-> structure[1][g].mass] IN
    \A m \in TypesMoves(parse.fs) :
      FirstTypeLines(MoveSection(parse.fs, m)) = FirstTypeLines(parse.fs)
        => MassesOf(MoveSection(parse.fs, m)) = masses

\* The types of C stand after the roster and those of N in the included file:
\* the masses are 12, 14, 14, 12, and the sections can be moved.
C17_TypesAfterUse ==
  /\ structure # <<>>
  /\ [g \in 1..Len(structure[1]) |-> structure[1][g].mass] = <<12, 14, 14, 12>>
  /\ parse.fs[Primary][1] = Header("moleculetype")
  /\ Cardinality(TypesMoves(parse.fs)) > 2

\* C17 as stated: no move of an [ atomtypes ] section changes a mass.
C17_AnyMoveKeepsMasses ==
  structure # <<>> =>
    \A m \in TypesMoves(parse.fs) :
      MassesOf(MoveSection(parse.fs, m))
        = [g \in 1..Len(structure[1]) |-> structure[1][g].mass]

(***************************************************************************)
(* SpecIdem: a text without directives, with  #define X  put before some   *)
(* line and  #ifdef X ... #endif  put around some later lines.             *)
(***************************************************************************)
IdemBase ==
  {MolM \o <<Header("bonds"), Rec12, Rec78>> \o RosterM,
   <<Header("atomtypes"), RecA, Rec(<<Word(<<"B">>), Num(2)>>)>> \o MolM \o RosterM}

\* The text with line l put before line k (after the last line for k = Len + 1).
InsertBefore(text, k, l) == SubSeq(text, 1, k - 1) \o <<l>> \o SubSeq(text, k, Len(text))

\* #define X before line d, #ifdef X before line i >= d, #endif before line
\* e > i, all counted in the text without directives.
WithBlock(text, d, i, e) ==
  InsertBefore(InsertBefore(InsertBefore(text, e, Endif), i, Ifdef("X")), d, Define("X"))

IdemFiles ==
  UNION {{WithBlock(text, die[1], die[2], die[3]) :
            die \in {x \in (1..Len(text)) \X (1..Len(text)) \X (2..(Len(text) + 1)) :
                       x[1] <= x[2] /\ x[2] < x[3]}} : text \in IdemBase}

InitIdem == InitWith({NewMachine([f \in {Primary} |-> file], {}) : file \in IdemFiles})

SpecIdem == InitIdem /\ [][Next]_vars

\* The text without its #define X, #ifdef X and #endif lines.
WithoutBlock(text) == SelectSeq(text, LAMBDA l : l \notin {Define("X"), Ifdef("X"), Endif})

\* C18: with X defined before the block, the text without the #define X
\* line and without the #ifdef X and #endif lines around the block parses
\* with the same outcome and to the same molecule types, atom types and
\* roster as the text with them, wherever the three lines stand.
C18_BlockOfDefinedSymbolIsNoOp ==
  (pc = "parsing" /\ parse.ret \in {"ok", "fail"} /\ parse.err # "Cannot open file") =>
    LET plain == Run(WithoutBlock(parse.fs[Primary]), <<>>) IN
    /\ plain.ret = parse.ret
    /\ Tables(plain.data) = Tables(parse.data)

(***************************************************************************)
(* #else and #endif (Spec).                                                *)
(***************************************************************************)
\* The step has taken the line that fgets returned: the reading parser has
\* not put it back for the loop of parse_topology_file.
Consumed ==
  ~(/\ parse'.ret = "run"
    /\ Len(parse'.frames) = Len(parse.frames)
    /\ Top(parse').unread = <<last'.l>>)

\* C19: a step that takes an #else or #endif line while the conditional
\* stack of the reading frame is empty makes the parse fail, after which no
\* line is read and open returns NULL; with a non-empty stack #else negates
\* the top entry and #endif removes the top entry, and the entries below and
\* the stacks of the other frames stay as they are.
C19_ElseEndifAgainstStack ==
  [][/\ (/\ Parsing
         /\ last'.op \in {"main", "section"}
         /\ last'.l.k \in {"else", "endif"}
         /\ Consumed)
        => LET stack == Top(parse).ifdef_stack IN
           IF stack = <<>> THEN parse'.ret \in {"unwind", "fail"}
           ELSE /\ parse'.ret = "run"
                /\ Len(parse'.frames) = Len(parse.frames)
                /\ Top(parse').ifdef_stack =
                     IF last'.l.k = "else"
                     THEN [stack EXCEPT ![Len(stack)] = ~stack[Len(stack)]]
                     ELSE Front(stack)
                /\ \A d \in 1..(Len(parse.frames) - 1) :
                     parse'.frames[d].ifdef_stack = parse.frames[d].ifdef_stack
     /\ (pc = "parsing" /\ parse.ret \in {"unwind", "fail"})
        => /\ last'.op \notin {"main", "section", "eof"}
           /\ pc' \in {"parsing", "null"}]_vars

(***************************************************************************)
(* Roster entries and molecule types (SpecInst).                           *)
(***************************************************************************)
\* The roster entries of data that name no molecule type of data.
Unresolved(data) ==
  {e \in 1..Len(data.molnames) :
     \A k \in 1..Len(data.moltypes) : data.moltypes[k].name # data.molnames[e]}

\* C20: open returns a handle only if every roster entry names a defined
\* molecule type: when the parse has ended with an entry that names none,
\* open returns NULL, and on every handle every entry resolves.
C20_RosterResolves ==
  /\ pc \in {"open", "closed"} => Unresolved(parse.data) = {}
  /\ (pc \notin {"start", "parsing"} /\ Unresolved(parse.data) # {}) => pc = "null"

\* The parse has succeeded, no count is negative, the second roster entry
\* names a molecule type that is not defined, and open has returned NULL.
C20_UnknownMoleculeRefused ==
  /\ pc = "null"
  /\ parse.ret = "ok"
  /\ NoNegativeCount
  /\ Unresolved(parse.data) = {2}

(***************************************************************************)
(* The heap of an open call (Spec).                                        *)
(***************************************************************************)
\* C21: when open has returned NULL, after a failure of the parse at any
\* include depth or of the instantiation, nothing that the call allocated is
\* still allocated: no molecule type with its record arrays, and not the
\* handle.
C21_NothingAllocatedAfterFailure ==
  pc = "null" => parse.heap.moltypes = 0 /\ ~parse.heap.data

(***************************************************************************)
(* SpecFull: files that fill a table and then bring one item more.         *)
(***************************************************************************)
Times(n, lines) == [i \in 1..(n * Len(lines)) |-> lines[((i - 1) % Len(lines)) + 1]]
RecB == Rec(<<Word(<<"B">>), Num(2)>>)

FullMoltypes ==
  Times(MAX_MOLTYPES, MolM)
  \o <<Header("moleculetype"), Rec(<<Word(<<"N">>), Num(1)>>), Header("atomtypes"), RecA>>
  \o RosterM
FullAtomtypes ==
  <<Header("atomtypes")>> \o Times(MAX_ATOMTYPES, <<RecA>>) \o <<RecB>> \o MolM \o RosterM
FullDefines ==
  [i \in 1..MAX_DEFINES |-> Define(ToString(i))]
  \o <<Define("X"), Header("atomtypes"), RecA>> \o MolM \o RosterM

InitFull ==
  InitWith({NewMachine([f \in {Primary} |-> file], {}) :
              file \in {FullMoltypes, FullAtomtypes, FullDefines}})

SpecFull == InitFull /\ [][Next]_vars

\* The first words of the records of a section of a text, in order, and the
\* symbols of its #define lines.
RecordNames(text, section) ==
  LET at == SelectSeq([i \in 1..Len(text) |-> i],
                      LAMBDA i : /\ text[i].k = "rec"
                                 /\ text[i - 1].k \in {"rec", "header"}
                                 /\ SectionAt(text, i) = section) IN
  [n \in 1..Len(at) |-> text[at[n]].toks[1].s]
DefineSymbols(text) ==
  LET at == SelectSeq([i \in 1..Len(text) |-> i], LAMBDA i : text[i].k = "define") IN
  [n \in 1..Len(at) |-> text[at[n]].arg]
FirstOf(n, seq) == SubSeq(seq, 1, IF Len(seq) < n THEN Len(seq) ELSE n)

\* C22: an item for a full molecule-type table, atom-type table or
\* define-set is dropped and the parse goes on: it ends with success, with
\* the first 500 molecule types, the first 1000 atom types and the first 100
\* symbols of the file in the tables, and with the records that follow the
\* dropped item in theirs.
C22_FullTableDropsItem ==
  (pc = "parsing" /\ parse.ret \in {"ok", "fail"} /\ parse.err # "Cannot open file") =>
    LET text == parse.fs[Primary] IN
    /\ parse.ret = "ok"
    /\ [k \in 1..Len(parse.data.moltypes) |-> parse.data.moltypes[k].name]
         = FirstOf(MAX_MOLTYPES, RecordNames(text, "moleculetype"))
    /\ [k \in 1..Len(parse.data.atomtypes) |-> parse.data.atomtypes[k].name]
         = FirstOf(MAX_ATOMTYPES, RecordNames(text, "atomtypes"))
    /\ parse.data.defines = FirstOf(MAX_DEFINES, DefineSymbols(text))
    /\ parse.data.molnames = RecordNames(text, "molecules")

(***************************************************************************)
(* SpecEof: files that end while an #ifdef or #ifndef is open.             *)
(***************************************************************************)
EofHead == {<<>>, <<Ifndef("X")>>, <<Ifdef("X")>>, <<Define("X"), Ifdef("X")>>}
EofTail ==
  {<<>>, <<Ifdef("Y"), Header("atomtypes"), RecB>>, <<Ifndef("Y"), Header("moleculetype")>>}
EofIncluded ==
  {<<>>, <<Ifndef("X"), Header("atomtypes"), RecA>>,
   <<Ifdef("X"), Header("atomtypes"), RecA, Else>>}

InitEof ==
  InitWith({NewMachine([f \in {Primary, "mol.itp"} |->
                          IF f = Primary
                          THEN head \o MolM \o <<Header("bonds"), Rec12, Include("mol.itp")>>
                               \o RosterM \o tail
                          ELSE inc], {}) :
              head \in EofHead, tail \in EofTail, inc \in EofIncluded})

SpecEof == InitEof /\ [][Next]_vars

\* The #ifdef and #ifndef lines of a text that no #endif closes.
OpenConditionals(text) ==
  Cardinality({i \in 1..Len(text) : text[i].k \in {"ifdef", "ifndef"}})
  - Cardinality({i \in 1..Len(text) : text[i].k = "endif"})

WithAtoms(inst) == SelectSeq(inst, LAMBDA mt : Len(mt.atoms) > 0)

\* C24: a roster entry whose molecule type has no atoms contributes
\* nothing to the tables of read_bonds and read_angles, whatever its count
\* and its bond, angle and dihedral records: the tables are those of the
\* instances that have atoms.  (Stated for rosters without negative counts.)
C24_NoAtomsNoTuples ==
  NoNegativeCount =>
    /\ (bonds # <<>> /\ bonds[1].rc = "MOLFILE_SUCCESS")
         => Emitted("bonds") = TableFrom(WithAtoms(Instances), "bonds", 1)
    /\ angles # <<>>
         => /\ Emitted("angles") = TableFrom(WithAtoms(Instances), "angles", 1)
            /\ Emitted("propers") = TableFrom(WithAtoms(Instances), "propers", 1)
            /\ Emitted("impropers") = TableFrom(WithAtoms(Instances), "impropers", 1)

(***************************************************************************)
(* SpecHeap: the handles of a molecule type "sol" of two atoms with one    *)
(* bond and one angle, with or without an improper and a proper dihedral,  *)
(* under every roster of "sol" entries; the arrays of the read calls are   *)
(* followed on the heap through up to MaxCalls calls of read_bonds and     *)
(* read_angles, of which the allocator refuses up to MaxRefusals arrays.   *)
(***************************************************************************)
HeapDihedrals ==
  {<<>>, <<Header("dihedrals"), DihedralLine(<<1, 2, 1, 2>>, 2),
           DihedralLine(<<2, 1, 2, 1>>, 9)>>}

HeapFiles ==
  {MoleculeLines(sol, <<1, 1>>, <<<<1, 2>>>>, <<<<1, 2, 1>>>>) \o d \o RosterLines(r) :
     d \in HeapDihedrals, r \in SeqsUpTo({sol} \X (-1..MaxCount), MaxEntries)}
  \cup {TruncatedFile}

Heaps == {[NoArrays EXCEPT !.followed = TRUE, !.refusals = n] : n \in 0..MaxRefusals}

InitHeap == InitOn({NewMachine([f \in {Primary} |-> file], {}) : file \in HeapFiles}, Heaps)

SpecHeap == InitHeap /\ [][Next]_vars

\* The blocks that a successful read_bonds or read_angles has returned.
Given == {i \in 1..Len(arrays.blocks) : arrays.blocks[i].given}

\* C25: while the handle is open, every array that read_bonds or read_angles
\* has returned with success is still allocated and holds the tuples it held
\* when it was returned, whatever read calls were made since.
C25_ReturnedArraysStay ==
  pc = "open" =>
    \A i \in Given : /\ arrays.blocks[i].state = "allocated"
                      /\ ~arrays.blocks[i].changed


\* What open has built in the handle: the tables, the define-set and the
\* five totals.
Built(data) ==
  <<Tables(data), data.defines, data.total_atoms, data.total_bonds,
    data.total_angles, data.total_dihedrals, data.total_impropers>>

\* The results of two calls of one operation agree when both succeeded.
SameResult(before, after) ==
  (before # <<>> /\ before[1].rc = "MOLFILE_SUCCESS" /\ after[1].rc = "MOLFILE_SUCCESS")
    => after = before

\* C26: every step of read_structure, read_bonds and read_angles on an open
\* handle leaves the molecule types, atom types, roster, define-set and the
\* five totals as open built them, and a call that succeeds returns what the
\* earlier successful calls of the same operation returned.
C26_ReadsLeaveTheHandle ==
  [][(pc = "open" /\ pc' = "open") =>
       /\ Built(parse'.data) = Built(parse.data)
       /\ structure # <<>> => structure' = structure
       /\ SameResult(bonds, bonds')
       /\ SameResult(angles, angles')]_vars


\* C27: at every moment the open files of the parse are exactly those of its
\* live activations, one each (no activation returns with its file open, on
\* success or on a fatal exit, and none closes a file twice), and once open
\* has returned, with a handle or with null, no file is open.
C27_FilesClosedByTheirFrame ==
  /\ parse.heap.files = Len(parse.frames)
  /\ pc \in {"null", "open", "closed"} => parse.heap.files = 0

\* A failed activation of an included file has closed its file and returned
\* 0 to the activation of the primary file, whose file is still open.
C27_IncludedFileClosedOnFailure ==
  /\ pc = "parsing" /\ parse.ret = "unwind" /\ last.op = "fail"
  /\ Len(parse.frames) = 1 /\ parse.heap.files = 1


(***************************************************************************)
(* SpecDup: topologies in which the molecule type "sol" is defined twice,  *)
(* the second time with other atoms and bonds, with or without the         *)
(* molecule type "ion" in between; and one in which the first definition   *)
(* of "sol" is molecule type number MAX_MOLTYPES of the file.              *)
(***************************************************************************)
DupFirst == MoleculeLines(sol, <<1, 1>>, <<<<1, 2>>>>, <<<<1, 2, 1>>>>)
DupBetween == {<<>>, MoleculeLines(ion, <<5>>, <<>>, <<>>)}
DupSecond ==
  {MoleculeLines(sol, a, b, <<>>) : a \in {<<>>, <<1>>, <<1, 2, 3>>},
                                    b \in {<<>>, <<<<1, 3>>>>}}
DupRosters == {<<<<sol, 1>>>>, <<<<sol, MaxCount>>>>, <<<<ion, 1>>, <<sol, 1>>>>}

\* Molecule types "1", "2", ..., n without sections.
Fillers(n) ==
  [i \in 1..(2 * n) |-> IF i % 2 = 1 THEN Header("moleculetype")
                        ELSE Rec(<<Word(<<ToString(i \div 2)>>), Num(1)>>)]

DupFiles ==
  {DupFirst \o m \o s \o RosterLines(r) : m \in DupBetween, s \in DupSecond, r \in DupRosters}
  \cup {Fillers(MAX_MOLTYPES - 1) \o DupFirst \o MoleculeLines(sol, <<1>>, <<>>, <<>>)
          \o RosterLines(<<<<sol, 1>>>>)}

InitDup == InitWith({NewMachine([f \in {Primary} |-> file], {}) : file \in DupFiles})

SpecDup == InitDup /\ [][Next]_vars

\* The [ moleculetype ] header that line i of a text belongs to: the header
\* itself, its name record and the sections of the molecule type; 0 if none.
DefinitionAt(text, i) ==
  LET h == HeaderOf(text, i + 1, {"moleculetype", "atomtypes", "molecules",
                                  "defaults", "system"})
  IN IF h # 0 /\ text[h].arg = "moleculetype" THEN h ELSE 0

\* The name that the [ moleculetype ] header at line h gives.
DefinedName(text, h) ==
  IF h < Len(text) /\ text[h + 1].k = "rec" THEN text[h + 1].toks[1].s ELSE <<>>

\* The header at line h gives a name that an earlier header gave.
SecondDefinition(text, h) ==
  \E g \in 1..(h - 1) : /\ text[g] = Header("moleculetype")
                        /\ DefinedName(text, g) = DefinedName(text, h)

\* The text without the second and later definitions of its molecule types.
FirstDefinitions(text) ==
  LET at == SelectSeq([i \in 1..Len(text) |-> i],
                      LAMBDA i : DefinitionAt(text, i) = 0
                                 \/ ~SecondDefinition(text, DefinitionAt(text, i)))
  IN [n \in 1..Len(at) |-> text[at[n]]]

\* What a finished parse gives the caller: whether there is a handle, and
\* with it natoms and the tables of read_structure, read_bonds, read_angles.
Emits(m) ==
  LET data == calculate_totals(m.data) IN
  IF m.ret = "ok" /\ data.total_atoms >= 0
  THEN <<"handle", data.total_atoms, read_grotop_structure(data),
         read_grotop_bonds(data), read_grotop_angles(data)>>
  ELSE <<"null">>

\* The molecule type that find_moltype gives for each name of the table.
Found(data) ==
  [k \in 1..Len(data.moltypes) |->
     data.moltypes[find_moltype(data, data.moltypes[k].name)]]

\* C28: a text with second definitions of molecule types gives the caller
\* what the text without them gives: the same handle or failure, the same
\* atoms, bonds, angles and dihedrals; and every name of the roster resolves
\* to the molecule type as its first definition built it.
C28_FirstDefinitionWins ==
  (pc = "parsing" /\ parse.ret \in {"ok", "fail"} /\ parse.err # "Cannot open file") =>
    LET first == Run(FirstDefinitions(parse.fs[Primary]), <<>>) IN
    /\ Emits(parse) = Emits(first)
    /\ \A e \in 1..Len(parse.data.molnames) :
         LET name == parse.data.molnames[e] IN
         find_moltype(parse.data, name) # 0 =>
           parse.data.moltypes[find_moltype(parse.data, name)]
             = first.data.moltypes[find_moltype(first.data, name)]


\* C29: every #ifdef or #ifndef line that is read adds one entry on top of
\* the conditional stack of the reading frame and every #endif line removes
\* the top entry, in active and inactive branches alike, #else and all other
\* lines leave the depth as it is, and the entries below the top are never
\* changed: the depth is the number of #ifdef and #ifndef lines read minus
\* the number of #endif lines read, and after the #endif of a nested #ifdef
\* the stack is the one of the enclosing conditionals.
C29_DepthCountsConditionals ==
  [][(/\ Parsing
      /\ last'.op \in {"main", "section"}
      /\ Consumed
      /\ parse'.ret = "run"
      /\ Len(parse'.frames) = Len(parse.frames))
     => LET stack == Top(parse).ifdef_stack
            after == Top(parse').ifdef_stack
        IN CASE last'.l.k \in {"ifdef", "ifndef"} ->
                  Len(after) = Len(stack) + 1 /\ Front(after) = stack
             [] last'.l.k = "endif" -> stack # <<>> /\ after = Front(stack)
             [] last'.l.k = "else" ->
                  stack # <<>> /\ Len(after) = Len(stack) /\ Front(after) = Front(stack)
             [] OTHER -> after = stack]_vars


\* The directives after which parse_topology_file enters the current section
\* again.
Directives == {"define", "ifdef", "ifndef", "else", "endif"}

\* C30: the record after an active [ moleculetype ] header adds exactly one
\* molecule type, which becomes the current one; a directive that is read
\* while "moleculetype" is the current section changes neither the molecule
\* types nor the current one, and neither does the line after it unless it
\* is a section header: no further molecule type appears and the parse does
\* not fail.
C30_OneMoleculeTypePerHeader ==
  [][/\ (/\ Parsing
         /\ Top(parse).loop = "moleculetype"
         /\ last.op = "main" /\ last.l.k = "header"
         /\ last'.op = "section" /\ last'.l.k = "rec")
        => /\ parse'.ret = "run"
           /\ Len(parse'.data.moltypes) = Len(parse.data.moltypes) + 1
           /\ Top(parse').current_mt = Len(parse'.data.moltypes)
     /\ (/\ Parsing
         /\ Top(parse).loop = "main"
         /\ Top(parse).current_section = "moleculetype"
         /\ last'.op = "main" /\ last'.l.k \in Directives
         /\ parse'.ret = "run")
        => /\ parse'.data.moltypes = parse.data.moltypes
           /\ Top(parse').current_mt = Top(parse).current_mt
     /\ (/\ Parsing
         /\ Top(parse).current_section = "moleculetype"
         /\ last.op = "main" /\ last.l.k \in Directives
         /\ last'.op \in {"main", "section", "eof"}
         /\ last'.l.k # "header")
        => /\ parse'.ret \in {"run", "ok"}
           /\ Len(parse'.data.moltypes) = Len(parse.data.moltypes)
           /\ (parse'.ret = "run" /\ Len(parse'.frames) = Len(parse.frames))
                => Top(parse').current_mt = Top(parse).current_mt]_vars


(***************************************************************************)
(* The lines that end a record parser (Spec).                              *)
(***************************************************************************)
\* The line ends the loop of a record parser.
EndsSection(l) == is_section_header(l) \/ is_preprocessor_directive(l)

\* C31: a section-header line or directive line that a section's record
\* parser reads (the parser of the moleculetype record included) is put back
\* by it, with no table changed and no failure, and the next step is the loop
\* of parse_topology_file reading that same line and taking it: the line is
\* not lost, not taken as a record, and not put back a second time.
C31_EndingLineHandedBack ==
  [][/\ (Parsing /\ last'.op = "section" /\ EndsSection(last'.l))
        => /\ parse'.ret = "run"
           /\ parse'.data = parse.data
           /\ Top(parse').loop = "main"
           /\ Top(parse').unread = <<last'.l>>
     /\ (Parsing /\ Top(parse).unread # <<>>)
        => /\ last'.op = "main"
           /\ last'.l = Top(parse).unread[1]
           /\ Consumed]_vars


(***************************************************************************)
(* SpecCycle: files that include themselves, directly ("topol.top"         *)
(* includes "topol.top"), through a second file ("topol.top" and "mol.itp" *)
(* include each other) and through a path with a directory part            *)
(* ("topol.top" includes "sub/loop.top", which names itself                *)
(* "../sub/loop.top"); and files without a cycle.                          *)
(***************************************************************************)
CycleNames == {Primary, "mol.itp", "sub/loop.top", "../sub/loop.top"}

CycleHeads == {<<>>, MolM, <<Define("X")>>}

\* The texts of "topol.top", "mol.itp" and "sub/loop.top".
CycleTexts ==
  {<<h \o <<Include(Primary)>> \o RosterM, <<>>, <<>>>> : h \in CycleHeads}
  \cup {<<h \o <<Include("mol.itp")>>, <<Include(Primary)>>, <<>>>> : h \in CycleHeads}
  \cup {<<h \o <<Include("sub/loop.top")>>, <<>>, <<Include("../sub/loop.top")>>>> :
          h \in CycleHeads}
  \cup {<<h \o <<Include("sub/loop.top")>> \o RosterM, <<>>, <<RecA>>>> : h \in CycleHeads}

InitCycle ==
  InitWith({NewMachine([f \in CycleNames |->
                          CASE f = Primary -> t[1]
                            [] f = "mol.itp" -> t[2]
                            [] OTHER -> t[3]], {}) : t \in CycleTexts})

SpecCycle == InitCycle /\ [][Next]_vars

\* C32: the include recursion never goes deeper than MAX_INCLUDES below the
\* primary file, the parse is never stopped before open returns, and when
\* the nesting limit is hit the parse fails and open returns a null handle.
C32_IncludeRecursionCut ==
  /\ Len(parse.frames) <= MAX_INCLUDES + 1
  /\ parse.ret # "abort"
  /\ parse.err = "Too many nested includes"
       => (pc = "null" \/ (pc = "parsing" /\ parse.ret \in {"unwind", "fail"}))


(***************************************************************************)
(* SpecDeep: files that begin with MAX_IFDEF_DEPTH - 1 to                  *)
(* MAX_IFDEF_DEPTH + 2 nested conditionals, all #ifdef X or all #ifndef X, *)
(* with or without a #define X before them, followed by a molecule type, a *)
(* roster and an #include of a file that opens conditionals of its own.    *)
(***************************************************************************)
DeepCounts == (MAX_IFDEF_DEPTH - 1)..(MAX_IFDEF_DEPTH + 2)
DeepHeads == {<<>>, <<Define("X")>>}
DeepOpeners == {Ifdef("X"), Ifndef("X")}
DeepIncluded == {<<>>, <<Ifndef("Y"), Ifdef("Y")>>, Times(MAX_IFDEF_DEPTH + 1, <<Ifndef("Y")>>)}

InitDeep ==
  InitWith({NewMachine([f \in {Primary, "mol.itp"} |->
                          IF f = Primary
                          THEN h \o Times(n, <<o>>) \o MolM \o RosterM
                               \o <<Include("mol.itp")>>
                          ELSE inc], {}) :
              h \in DeepHeads, n \in DeepCounts, o \in DeepOpeners, inc \in DeepIncluded})

SpecDeep == InitDeep /\ [][Next]_vars

\* The #ifdef and #ifndef lines at the beginning of the primary file, after
\* its #define lines.
Openers(text) ==
  Cardinality({i \in 1..Len(text) :
                 /\ text[i].k \in {"ifdef", "ifndef"}
                 /\ \A j \in 1..i : text[j].k \in {"define", "ifdef", "ifndef"}})

TooDeep == "Too many nested #ifdef directives"

\* C33: the conditional stack of every activation holds at most
\* MAX_IFDEF_DEPTH entries; a file that opens up to MAX_IFDEF_DEPTH nested
\* conditionals does not fail for their number, and one that opens more
\* fails at the first one beyond, after which open returns a null handle.
C33_StackWithinDepth ==
  /\ \A d \in 1..Len(parse.frames) :
       Len(parse.frames[d].ifdef_stack) \in 0..MAX_IFDEF_DEPTH
  /\ parse.err = TooDeep
       => (pc = "null" \/ (pc = "parsing" /\ parse.ret \in {"unwind", "fail"}))
  /\ (pc = "parsing" /\ parse.ret \in {"ok", "fail"} /\ parse.err # "Cannot open file")
       => IF Openers(parse.fs[Primary]) > MAX_IFDEF_DEPTH
          THEN parse.ret = "fail" /\ parse.err = TooDeep
               /\ parse.data.moltypes = <<>>
          ELSE parse.err = TooDeep
                 => Len(parse.fs["mol.itp"]) > MAX_IFDEF_DEPTH

\* A file with more than MAX_IFDEF_DEPTH nested conditionals was refused.
C33_TwentyFirstRefused ==
  /\ pc = "null" /\ parse.err = TooDeep
  /\ Openers(parse.fs[Primary]) = MAX_IFDEF_DEPTH + 1


(***************************************************************************)
(* SpecDefs: files that define MAX_DEFINES - 1 or MAX_DEFINES symbols      *)
(* "1", "2", ... and then define one more: "1" again, or the new symbol    *)
(* "X", once or twice; then a molecule type and a roster, and in half of   *)
(* the files a molecule type header that nothing follows.                  *)
(***************************************************************************)
Numbered(n) == [i \in 1..n |-> Define(ToString(i))]

DefsFiles ==
  {Numbered(n) \o more \o MolM \o roster :
     n \in {MAX_DEFINES - 1, MAX_DEFINES},
     more \in {<<Define("1")>>, <<Define("X")>>, <<Define("X"), Define("X")>>,
               <<Define("1"), Define("X")>>},
     roster \in {RosterM, RosterM \o <<Header("moleculetype")>>}}

InitDefs == InitWith({NewMachine([f \in {Primary} |-> file], {}) : file \in DefsFiles})

SpecDefs == InitDefs /\ [][Next]_vars

NoSymbolTwice(defines) ==
  \A i, j \in 1..Len(defines) : defines[i] = defines[j] => i = j

\* C34: after every #define line the define-set holds at most MAX_DEFINES
\* symbols, each once; and a #define of a symbol that is in the set leaves
\* the set as it is and prints no warning, for a full set too.
C34_DefineSetBounded ==
  [][(Parsing /\ last'.op = "main" /\ last'.l.k = "define")
     => /\ Len(parse'.data.defines) <= MAX_DEFINES
        /\ NoSymbolTwice(parse'.data.defines)
        /\ is_defined(parse.data, last'.l.arg)
             => /\ parse'.data.defines = parse.data.defines
                /\ parse'.full_warnings = parse.full_warnings]_vars


\* The step has taken the line it read: it is not left for a second reading.
Taken == parse'.frames # <<>> /\ Top(parse').unread = <<>>

\* C35: a #define line that is read while a conditional of the file is
\* inactive, and is not handed back for a second reading, puts its symbol
\* into the define-set; and no step of the parse takes a symbol out of the
\* set, so every later #ifdef and #ifndef finds it.
C35_DefineInInactiveBranch ==
  [][/\ (Parsing /\ last'.op \in {"main", "section"} /\ last'.l.k = "define"
           /\ ~should_process(Top(parse)) /\ Taken)
        => is_defined(parse'.data, last'.l.arg)
     /\ (Parsing /\ parse'.ret = "run")
        => \A s \in Symbols : is_defined(parse.data, s) => is_defined(parse'.data, s)]_vars


\* C36: an #include line that is read while a conditional of the file is
\* inactive, and is not handed back for a second reading, opens no file,
\* starts no activation, changes no table and is no failure, whether the
\* file it names exists or not.
C36_IncludeInInactiveBranch ==
  [][(Parsing /\ last'.op \in {"main", "section"} /\ last'.l.k = "include"
        /\ ~should_process(Top(parse)) /\ Taken)
     => /\ parse'.ret = "run"
        /\ parse'.data = parse.data
        /\ parse'.heap = parse.heap
        /\ Len(parse'.frames) = Len(parse.frames)]_vars


(***************************************************************************)
(* SpecIgnored: a primary file  pre, [ section ], records, post  in which   *)
(* no molecule type is defined before the section, and the section is one  *)
(* that process_section has no parser for ("cmap"), one that it reads and  *)
(* drops, or one of the sections of a molecule type.  post begins with a   *)
(* section header.                                                         *)
(***************************************************************************)
IgnoredSections == {"cmap"} \cup SkipSections \cup MtSections

Atom1 == AtomLine(1, <<"A">>, 1, 0)

IgnoredPre == {<<>>, <<Header("atomtypes"), RecA>>}
IgnoredRecords ==
  {<<Rec12>>, <<Atom1>>, <<Rec(<<Num(1), Num(2), Num(3), Num(4)>>), Blank, RecA>>}
IgnoredPost ==
  {MolM \o <<Header("atoms"), Atom1>> \o RosterM,
   <<Header("atomtypes"), RecA>> \o MolM \o RosterM,
   <<Header("molecules"), Rec(<<Word(<<"M">>), Num(1)>>)>> \o MolM,
   <<Header("moleculetype")>>}

InitIgnored ==
  InitWith({NewMachine([f \in {Primary} |-> pre \o <<Header(s)>> \o recs \o post], {}) :
              pre \in IgnoredPre, s \in IgnoredSections,
              recs \in IgnoredRecords, post \in IgnoredPost})

SpecIgnored == InitIgnored /\ [][Next]_vars

\* The lines of the ignored section of text: its header and what follows it
\* up to the next section header.
IgnoredBlock(text) ==
  LET heads == {i \in 1..Len(text) : is_section_header(text[i])}
      first == CHOOSE i \in heads : text[i].arg \in IgnoredSections
      next == CHOOSE i \in heads : i > first /\ \A j \in heads : j > first => i <= j
  IN first..(next - 1)

\* The text without the lines of its ignored section.
WithoutIgnored(text) ==
  LET at == SelectSeq([i \in 1..Len(text) |-> i], LAMBDA i : i \notin IgnoredBlock(text))
  IN [k \in 1..Len(at) |-> text[at[k]]]

\* The reading frame is under an ignored section and no molecule type has
\* been defined.
UnderIgnored(m) ==
  /\ Top(m).current_section \in IgnoredSections
  /\ Len(m.data.moltypes) = 0

\* C37: a record line read under a section without a parser, under a section
\* that is read and dropped, or under a section of a molecule type while no
\* molecule type has been defined, changes no table and is no failure; and
\* the section headers after it are dispatched as if the ignored section and
\* its records were not in the file: the parse ends with the same tables and
\* the same result.
C37_IgnoredRecordsChangeNothing ==
  [][/\ (Parsing /\ last'.op \in {"main", "section"} /\ last'.l.k = "rec"
           /\ UnderIgnored(parse))
        => /\ parse'.ret = "run"
           /\ parse'.data = parse.data
           /\ parse'.heap = parse.heap
     /\ (pc' = "parsing" /\ parse'.ret \in {"ok", "fail"}
           /\ parse'.err # "Cannot open file")
        => LET twin == Run(WithoutIgnored(parse'.fs[Primary]), <<>>) IN
           /\ parse'.ret = twin.ret
           /\ parse'.err = twin.err
           /\ parse'.data = twin.data]_vars

\* Witness for C37: the handle of a file whose records under [ cmap ] were
\* passed over and whose later molecule type, atoms and roster were read.
C37_SectionAfterIgnoredRead ==
  /\ pc = "open"
  /\ natoms = 1
  /\ \E i \in 1..Len(parse.fs[Primary]) : parse.fs[Primary][i] = Header("cmap")
  /\ Len(parse.data.moltypes) = 1


(***************************************************************************)
(* SpecShort: files with one malformed record in one section, followed by  *)
(* a well-formed record of that section.  The malformed record is the      *)
(* well-formed one cut to one field less than the section needs, or with   *)
(* one of its numeric fields replaced by the token x or by the token 2x.   *)
(***************************************************************************)
RecordSections == MtSections \cup {"molecules", "atomtypes"}

\* A well-formed record of the section with the fields the section needs.
GoodRecord(s) ==
  CASE s = "atoms" -> <<Num(1), Word(<<"A">>), Num(1), Word(<<"R">>), Word(<<"A">>), Num(1), Num(0)>>
    [] s \in {"bonds", "constraints"} -> <<Num(1), Num(2)>>
    [] s = "angles" -> <<Num(1), Num(2), Num(3)>>
    [] s = "dihedrals" -> <<Num(1), Num(2), Num(3), Num(4)>>
    [] s = "molecules" -> <<Word(<<"M">>), Num(1)>>
    [] OTHER -> <<Word(<<"A">>), Num(1)>>

\* The positions of the fields of the section's record that must be numbers.
NumericFields(s) == {i \in 1..Len(GoodRecord(s)) : GoodRecord(s)[i].n}

NotNumbers == {Word(<<"x">>), Word(<<"2", "x">>)}

BadRecords(s) ==
  {SubSeq(GoodRecord(s), 1, Len(GoodRecord(s)) - 1)}
  \cup {[GoodRecord(s) EXCEPT ![i] = w] : i \in NumericFields(s), w \in NotNumbers}

ShortText(s, bad) ==
  LET body == <<Header(s), Rec(bad), Rec(GoodRecord(s))>> IN
  CASE s = "atomtypes" -> body \o MolM \o RosterM
    [] s = "molecules" -> MolM \o body
    [] OTHER -> MolM \o body \o RosterM

ShortFiles ==
  UNION {{ShortText(s, bad) : bad \in BadRecords(s)} : s \in RecordSections}
  \cup {ShortText("bonds", bad) \o <<Header("moleculetype")>> : bad \in BadRecords("bonds")}

InitShort == InitWith({NewMachine([f \in {Primary} |-> file], {}) : file \in ShortFiles})

SpecShort == InitShort /\ [][Next]_vars

\* The record toks has fewer fields than the section s needs, or a token
\* that is not a number in a field that must be one (for atomtypes the mass
\* is the second field, or the fourth).
Malformed(s, toks) ==
  IF s = "atomtypes"
  THEN \/ Len(toks) < 2
       \/ ~toks[2].n /\ (Len(toks) < 4 \/ ~toks[4].n)
  ELSE \/ Len(toks) < Len(GoodRecord(s))
       \/ \E i \in NumericFields(s) : ~toks[i].n

\* C38: a record with fewer fields than its section needs, or with a token
\* that is not a number in a field that must be one, adds nothing to any
\* table, leaves the section's parser reading and is no failure, so that the
\* records after it are read by the same parser.
C38_MalformedRecordDropped ==
  [][(Parsing /\ last'.op = "section" /\ last'.l.k = "rec"
        /\ Top(parse).loop \in RecordSections
        /\ Malformed(Top(parse).loop, last'.l.toks))
     => /\ parse'.ret = "run"
        /\ parse'.data = parse.data
        /\ Top(parse').loop = Top(parse).loop]_vars


\* C39: on an open handle, read_structure has written as many atoms as the
\* natoms that open returned, which is the size of the caller's array; and a
\* read_bonds or read_angles call that succeeded has written, to each of its
\* arrays, as many tuples as it allocated the array for and as it reports.
C39_WritesFitArrays ==
  pc = "open" =>
    /\ structure # <<>> => Len(structure[1]) = natoms
    /\ (bonds # <<>> /\ bonds[1].rc = "MOLFILE_SUCCESS")
         => /\ Len(bonds[1].pairs) = bonds[1].alloc
            /\ Len(bonds[1].pairs) = bonds[1].nbonds
    /\ (angles # <<>> /\ angles[1].rc = "MOLFILE_SUCCESS")
         => /\ Len(angles[1].angles) = angles[1].angles_alloc
            /\ Len(angles[1].angles) = angles[1].numangles
            /\ Len(angles[1].dihedrals) = angles[1].dihedrals_alloc
            /\ Len(angles[1].dihedrals) = angles[1].numdihedrals
            /\ Len(angles[1].impropers) = angles[1].impropers_alloc
            /\ Len(angles[1].impropers) = angles[1].numimpropers


\* C40: no array that read_bonds or read_angles allocated is ever freed
\* twice, and after close every one of them has been freed, once: whatever
\* read calls were made, repeated ones and ones with a refused allocation
\* included.
C40_ArraysFreedOnce ==
  /\ \A i \in 1..Len(arrays.blocks) : arrays.blocks[i].frees <= 1
  /\ pc = "closed" =>
       \A i \in 1..Len(arrays.blocks) :
         arrays.blocks[i].state = "freed" /\ arrays.blocks[i].frees = 1


=============================================================================
